---- MODULE Spec2Model ----
(***************************************************************************)
(* Persistence engine of the credential vault: Database::open,             *)
(* Database::saveAs / performSave / writeDatabase, backupDatabase,         *)
(* restoreDatabase, setKey and changeKdf of src/src/core/Database.cpp,     *)
(* over a small file system in which every file operation may fail.        *)
(*                                                                         *)
(* Trees held in memory are 0..MaxData, 0 being the tree of a default      *)
(* empty instance.  File contents are small integers: 0 is "no such file", *)
(* Enc(t) is the complete encoding of tree t, Partial is a truncated       *)
(* write.                                                                  *)
(***************************************************************************)
EXTENDS Integers, FiniteSets, Sequences, TLC

\* ---------------------------------------------------------------- bounds
MaxData == 1
MaxSeed == 2
MaxLedger == 2
MaxHist == 2
MaxSize == 2
MaxPath == 3
MaxHold == 3
MaxWait == 3
MaxAttempts == 4

\* ------------------------------------------------------------ file names
NoFile == 0
Partial == 0 - 1
DefaultTree == 0
Trees == 0..MaxData
Enc(t) == t + 1
Dec(c) == c - 1
Contents == {Enc(t) : t \in Trees}

NoPath == ""
\* "./a" names the same file as "a" through a different path string
Paths == {"a", "./a"}
Files == {"a"}
BakFiles == {"a.old"}

\* QFileInfo::canonicalFilePath of an existing file
Canon(p) == IF p = "./a" THEN "a" ELSE p

\* the file a path string designates, whether or not it exists
FileOf(p) == Canon(p)

\* the <stem>.old<ext> name computed by backupDatabase
BackupPath(f) == "a.old"

\* the name computed by restoreDatabase
RestorePath(f) == "a.old"

\* A path whose name is computed is a sequence of characters: a letter "a", the
\* dot "." and the line feed "nl"; ".old" stands for its four characters.
\* backupDatabase: the first match of (\.[^.]+)$ is removed and ".old" and the
\* match are appended; [^.] matches a line feed, so the match is the last dot
\* with all that follows it, when something follows it
BackupFileName(path) ==
    LET n == Len(path)
        dots == {i \in 1..n : path[i] = "."}
        last == IF dots = {} THEN 0
                ELSE CHOOSE i \in dots : \A j \in dots : j <= i
    IN  IF last = 0 \/ last = n THEN path \o <<".old">>
        ELSE SubSeq(path, 1, last - 1) \o <<".old">> \o SubSeq(path, last, n)

\* restoreDatabase: ^(.*?)(\.[^.]+)?$ is matched and ".old" is put between the
\* two captures; the dot of (.*?) matches no line feed, $ matches at the end and
\* before a final line feed, and without a match both captures are empty
RestoreFileName(path) ==
    LET n == Len(path)
        Group(k) == /\ k + 1 < n
                    /\ path[k + 1] = "."
                    /\ \A i \in (k + 2)..n : path[i] # "."
        AtEnd(k) == k = n \/ (k = n - 1 /\ path[n] = "nl")
        cuts == {k \in 0..n : /\ \A i \in 1..k : path[i] # "nl"
                              /\ Group(k) \/ AtEnd(k)}
    IN  IF cuts = {} THEN <<".old">>
        ELSE LET k == CHOOSE c \in cuts : \A d \in cuts : c <= d
             IN  SubSeq(path, 1, k) \o <<".old">>
                     \o (IF Group(k) THEN SubSeq(path, k + 1, n) ELSE <<>>)

\* ------------------------------------------------------------------ keys
\* a null m_data.key, the empty CompositeKey changeKdf creates, a user's key
NullKey == "null"
EmptyComposite == "empty"
UserKeys == {"K1"}
Seeds == 1..MaxSeed
KdfTypes == {"AES"}
Kdfs == [type : KdfTypes, seed : Seeds]

\* composite keys that hold a challenge-response component besides the
\* password of K1, and a key with another password
DeviceKeys == {"K1Y1", "K1Y2"}
OtherKeys == {"K2"}

\* the password component of a composite key
Pw(k) == CASE k \in {"K1", "K1Y1", "K1Y2"} -> "p1"
           [] k = "K2" -> "p2"
           [] OTHER -> ""

\* the challenge-response device of a composite key
Cr(k) == CASE k = "K1Y1" -> "Y1"
           [] k = "K1Y2" -> "Y2"
           [] OTHER -> "none"

\* the rawKey() of a PasswordKey that was never set
EmptyRaw == <<>>

\* CompositeKey::rawKey(): the hash of the stored components; the answer of a
\* device needs a seed and is not part of it
RawKey(k) == <<Pw(k)>>

\* CompositeKey::challenge(seed, result): no device gives an empty result, a
\* device that cannot be reached makes the call fail
Challenge(k, seed, devOk) ==
    IF Cr(k) = "none" THEN [ok |-> TRUE, response |-> EmptyRaw]
    ELSE IF devOk THEN [ok |-> TRUE, response |-> <<Cr(k), seed>>]
    ELSE [ok |-> FALSE, response |-> EmptyRaw]

NoSeed == 0

\* ----------------------------------------------------------------- tree
\* the root group, a group below it, a group that belongs to no Database and
\* the groups createRecycleBin can make
Root == "root"
BinGroups == {"b1", "b2"}
Groups == {Root, "g1", "gx"} \cup BinGroups
Entries == {"e1", "e2"}
\* the order in which a group lists its entries and its children
EntryOrder == <<"e1", "e2">>
GroupOrder == <<"g1", "gx", "b1", "b2">>
NoGroup == "none"
Dead == "dead"
Unborn == "unborn"
\* the uuid addDeletedObject is called with from outside
Uuids == {"e1"}
Sizes == 1..MaxSize
NoKdf == [type |-> "AES", seed |-> NoSeed]

\* CompositeKey::transform: a deterministic function of the key and the KDF
Transform(k, f) == <<k, f.type, f.seed>>

VARIABLES
    fs,           \* contents of the database files and their backups
    tmp,          \* contents of the save's temporary file (0: none)
    pc,           \* position of the running operation
    filePath,     \* m_data.filePath
    isReadOnly,   \* m_data.isReadOnly
    modified,     \* m_modified
    initialized,  \* m_initialized
    emitModified, \* m_emitModified
    timer,        \* m_modifiedTimer.isActive()
    watch,        \* m_fileWatcher: watched path and the checksum it recorded
    tree,         \* tree, metadata and tombstones held in memory (0: default)
    key,          \* m_data.key
    hasKey,       \* m_data.hasKey
    tk,           \* m_data.transformedMasterKey->rawKey()
    kdf,          \* m_data.kdf
    sv,           \* arguments and locals of the running saveAs
    res,          \* what the last operation returned and what it started from
    masterSeed,   \* m_data.masterSeed->rawKey()
    crKey,        \* m_data.challengeResponseKey->rawKey()
    entryGroup,   \* Entry::m_group of every entry, or that it was destroyed
    groupParent,  \* Group::m_parent of every group, or that it was destroyed
    history,      \* Entry::m_history: the size estimates of the snapshots
    ledger,       \* m_deletedObjects: the uuids of the tombstones, in order
    binEnabled,   \* Metadata::recycleBinEnabled()
    bin,          \* Metadata::recycleBin()
    flagsOff,     \* the groups with searching and auto-type disabled
    binsMade,     \* bins created by the recycle calls since the last other call
    tres,         \* what the last tree operation was given and started from
    entryData,    \* the field values of the entry, as the size estimate of a snapshot
    tmpHistoryItem,     \* Entry::m_tmpHistoryItem: the pending snapshot
    modifiedSinceBegin, \* Entry::m_modifiedSinceBegin
    touched,      \* a value or the history was changed since the last beginUpdate
    eres,         \* what the last endUpdate was given and started from
    attributes,   \* the stored Title, UserName and Password of every entry
    rres,         \* what the last placeholder resolution was given and returned
    rootGroup,    \* Database::m_rootGroup: the group the pointer designates
    owned,        \* the groups whose QObject parent is the Database
    yk,           \* the YubiKey singleton: its mutex and the threads calling it
    wd            \* the DatabaseWidget showing the Database

vars == <<fs, tmp, pc, filePath, isReadOnly, modified, initialized, emitModified,
          timer, watch, tree, key, hasKey, tk, kdf, sv, res, masterSeed, crKey,
          entryGroup, groupParent, history, ledger, binEnabled, bin, flagsOff,
          binsMade, tres, entryData, tmpHistoryItem, modifiedSinceBegin, touched,
          eres, attributes, rres, rootGroup, owned, yk, wd>>

dbVars == <<filePath, isReadOnly, modified, initialized, emitModified, timer,
            watch, tree>>
keyVars == <<key, hasKey, tk, kdf>>
crVars == <<masterSeed, crKey>>
objVars == <<entryGroup, groupParent, history, ledger, binEnabled, bin, flagsOff,
             binsMade>>
treeVars == <<objVars, tres>>
sessionVars == <<entryData, tmpHistoryItem, modifiedSinceBegin, touched>>
entryVars == <<sessionVars, eres>>
guiVars == <<yk, wd>>
otherVars == <<attributes, rres, rootGroup, owned, guiVars>>
moreVars == <<entryVars, otherVars>>

NoWatch == [path |-> NoPath, sum |-> NoFile]
NoFiles == [f \in Files \cup BakFiles |-> NoFile]
NoSave == [path |-> NoPath, wpath |-> NoPath, atomic |-> TRUE, backup |-> FALSE,
           bakOk |-> FALSE, restored |-> FALSE, new |-> NoFile]
NoRes == [op |-> "none", ok |-> TRUE, err |-> "none", path |-> NoPath,
          fs |-> NoFiles, ro |-> FALSE, mod |-> FALSE, watch |-> NoWatch,
          fp |-> NoPath, tk |-> EmptyRaw, same |-> TRUE,
          roReq |-> FALSE, rwOk |-> FALSE, roOk |-> FALSE, dec |-> "ok",
          key |-> NullKey, hasKey |-> FALSE, kdf |-> NoKdf, crKey |-> EmptyRaw,
          arg |-> NullKey, salt |-> FALSE, tr |-> FALSE, devOk |-> TRUE]

\* the state an operation starts from, recorded for its postconditions
Started(op, path) ==
    [NoRes EXCEPT !.op = op, !.path = path, !.fs = fs, !.ro = isReadOnly,
                  !.mod = modified, !.watch = watch, !.fp = filePath, !.tk = tk]

NoObjects == [eg |-> [e \in Entries |-> Root],
              gp |-> [g \in Groups |-> IF g = "g1" THEN Root
                                     ELSE IF g \in BinGroups THEN Unborn
                                     ELSE NoGroup],
              hist |-> [e \in Entries |-> <<>>],
              led |-> <<>>, enabled |-> TRUE, bin |-> NoGroup, off |-> {},
              made |-> 0]
NoLimits == [items |-> 0 - 1, size |-> 0 - 1]
NoTres == [op |-> "none", e |-> NoGroup, g |-> NoGroup, u |-> NoGroup,
           pre |-> NoObjects]

\* a null m_tmpHistoryItem: no snapshot is pending
NullItem == 0
\* the entry whose update sessions are followed
SessionEntry == "e2"
NoEres == [op |-> "none", hist |-> <<>>, snap |-> NullItem, flag |-> FALSE,
           data |-> 1, lim |-> NoLimits, inDb |-> FALSE, out |-> "none",
           ret |-> FALSE]
\* the default fields of an entry, as the strings of their tokens
Fields == {"Title", "UserName", "Password"}
NoAttributes == [e \in Entries |-> [f \in Fields |-> <<>>]]
NoRres == [op |-> "none", e |-> NoGroup, in |-> <<>>, out |-> <<>>, log |-> {}]
\* a new Entry: no snapshot pending, nothing modified
NoSession ==
    /\ tmpHistoryItem = NullItem
    /\ modifiedSinceBegin = FALSE
    /\ touched = FALSE
    /\ eres = NoEres

\* the objects of the Database as one value
Objects == [eg |-> entryGroup, gp |-> groupParent, hist |-> history,
            led |-> ledger, enabled |-> binEnabled, bin |-> bin,
            off |-> flagsOff, made |-> binsMade]

ObjectsAre(st) ==
    /\ entryGroup = st.eg
    /\ groupParent = st.gp
    /\ history = st.hist
    /\ ledger = st.led
    /\ binEnabled = st.enabled
    /\ bin = st.bin
    /\ flagsOff = st.off
    /\ binsMade = st.made

\* Database::Database: the root group is created and given to the Database
Constructed == rootGroup = Root /\ owned = {Root}

\* the threads that call the YubiKey singleton
Threads == {"t1", "t2"}
NoThread == "none"

\* YubiKey::YubiKey: no handle, the mutex free; no call running
NoYk == [pc |-> [t \in Threads |-> "idle"], owner |-> NoThread, open |-> FALSE,
         hold |-> 0, waited |-> [t \in Threads |-> 0],
         out |-> [t \in Threads |-> "none"]]

\* DatabaseWidget::DatabaseWidget: no failed save counted, auto-save not
\* blocked, the Database shown; UseAtomicSaves is on by default. The other
\* fields are the position of the running handler (at, stack, useAtomic) and
\* what the handlers record for their postconditions
NoWd == [saveAttempts |-> 0, blockAutoSave |-> FALSE, atomic |-> TRUE,
         locked |-> FALSE, at |-> "idle", stack |-> <<>>, useAtomic |-> TRUE,
         op |-> "none", ret |-> TRUE, calls |-> 0, prompts |-> 0,
         disabled |-> FALSE, retries |-> 0, retryAtomic |-> FALSE,
         fails |-> 0, afails |-> 0, askFails |-> 0, askAfails |-> 0,
         preMod |-> FALSE, preLocked |-> FALSE, ans |-> "none",
         autoFailed |-> FALSE, saveFailed |-> FALSE, saved |-> FALSE,
         lastSave |-> "none", after |-> "none"]

\* no YubiKey call and no widget call has been made
Detached == yk = NoYk /\ wd = NoWd

\* the key state a key operation starts from
StartedKey(op, k) ==
    [NoRes EXCEPT !.op = op, !.arg = k, !.mod = modified, !.tk = tk, !.key = key,
                  !.hasKey = hasKey, !.kdf = kdf, !.crKey = crKey]

\* ---------------------------------------------------------- FileWatcher
\* FileWatcher::start records the checksum of the file at the path
WatchStart(path, files) == [path |-> path, sum |-> files[FileOf(path)]]

\* FileWatcher::hasSameFileChecksum while watching
SameChecksum == fs[FileOf(watch.path)] = watch.sum

\* ------------------------------------------------------- flag operations
\* Database::setEmitModified: the timer value after the call
SetEmitTimer(cur, tm, value) == IF cur /\ ~value THEN FALSE ELSE tm

\* Database::markAsModified: the timer value after the call
MarkTimer(emit, tm) == IF emit /\ ~tm THEN TRUE ELSE tm

Init ==
    /\ fs \in {[NoFiles EXCEPT !["a"] = c] : c \in Contents \cup {NoFile}}
    /\ tmp = NoFile
    /\ pc = "idle"
    /\ filePath = NoPath
    /\ isReadOnly = FALSE
    /\ modified = FALSE
    /\ initialized = FALSE
    /\ emitModified = TRUE
    /\ timer = FALSE
    /\ watch = NoWatch
    /\ tree = DefaultTree
    /\ key = NullKey
    /\ hasKey = FALSE
    /\ tk = EmptyRaw
    /\ kdf \in Kdfs
    /\ sv = NoSave
    /\ res = NoRes
    /\ masterSeed = NoSeed
    /\ crKey = EmptyRaw
    /\ ObjectsAre(NoObjects)
    /\ tres = NoTres
    /\ entryData = 1
    /\ NoSession
    /\ attributes = NoAttributes
    /\ rres = NoRres
    /\ Constructed
    /\ Detached

\* ------------------------------------------------------------------ open
\* an open that forgets the fallback when it sets the flag
OpenReadOnlyAsRequested(roReq, rwOk) == roReq

\* the read-only flag open() ends with: requested, or read-write refused
OpenReadOnly(roReq, rwOk) == roReq \/ ~rwOk

\* whether the file could be opened at all
OpenOpened(roReq, rwOk, roOk) == (~roReq /\ rwOk) \/ roOk

\* KeePass2Reader::readDatabase succeeds on a complete file when the key fits
ReadOk(c, dec) == dec = "ok" /\ c \in Contents

\* KeePass2Reader::readDatabase: what a successful read puts into the Database
ReadDatabase(c, k, hdr) ==
    [tree |-> Dec(c), key |-> k, hasKey |-> TRUE, kdf |-> hdr, tk |-> Transform(k, hdr)]

\* Database::open(filePath, key, error, readOnly)
Open(path, k, roReq, rwOk, roOk, dec, hdr) ==
    LET f == FileOf(path)
        r0 == [Started("open", path) EXCEPT !.roReq = roReq, !.rwOk = rwOk,
                                            !.roOk = roOk, !.dec = dec]
        tm0 == SetEmitTimer(emitModified, timer, FALSE)
        Fail(e) == /\ res' = [r0 EXCEPT !.ok = FALSE, !.err = e]
                   /\ initialized' = FALSE
                   /\ emitModified' = FALSE
                   /\ timer' = tm0
                   /\ UNCHANGED <<filePath, isReadOnly, modified, watch>>
    IN  /\ pc = "idle"
        /\ pc' = "done"
        /\ UNCHANGED <<fs, tmp, sv, crVars, treeVars, moreVars>>
        /\ IF fs[f] = NoFile
           THEN Fail("notfound") /\ UNCHANGED <<tree, key, hasKey, tk, kdf>>
           ELSE IF ~OpenOpened(roReq, rwOk, roOk)
           THEN Fail("cannotopen") /\ UNCHANGED <<tree, key, hasKey, tk, kdf>>
           ELSE IF ReadOk(fs[f], dec)
           THEN /\ tree' = ReadDatabase(fs[f], k, hdr).tree
                /\ key' = ReadDatabase(fs[f], k, hdr).key
                /\ hasKey' = ReadDatabase(fs[f], k, hdr).hasKey
                /\ kdf' = ReadDatabase(fs[f], k, hdr).kdf
                /\ tk' = ReadDatabase(fs[f], k, hdr).tk
                /\ isReadOnly' = OpenReadOnly(roReq, rwOk)
                /\ filePath' = path
                /\ modified' = FALSE
                /\ timer' = FALSE
                /\ initialized' = TRUE
                /\ watch' = WatchStart(Canon(path), fs)
                /\ emitModified' = TRUE
                /\ res' = r0
           ELSE \* the reader failed and left the Database as it found it
                /\ Fail("decode")
                /\ UNCHANGED <<tree, key, hasKey, tk, kdf>>

OpenAct ==
    \E path \in Paths, k \in UserKeys, roReq \in BOOLEAN, rwOk \in BOOLEAN,
       roOk \in BOOLEAN, dec \in {"ok", "fail"}, hdr \in Kdfs :
        Open(path, k, roReq, rwOk, roOk, dec, hdr)

\* ------------------------------------------------------------------ keys
\* Database::setKey: the key state after the call, whether it succeeded and
\* whether it called markAsModified
SetKeyCalc(k, updateTransformSalt, transformKey, newSeed, kdfOk) ==
    LET kdf1 == IF updateTransformSalt THEN [kdf EXCEPT !.seed = newSeed] ELSE kdf
        old == IF hasKey THEN tk ELSE EmptyRaw
        t == IF transformKey THEN Transform(k, kdf1) ELSE old
        tk1 == IF t # EmptyRaw THEN t ELSE tk
    IN  IF k = NullKey
        THEN [ok |-> TRUE, key |-> NullKey, hasKey |-> FALSE, tk |-> EmptyRaw,
              kdf |-> kdf, marks |-> FALSE]
        ELSE IF transformKey /\ ~kdfOk
        THEN [ok |-> FALSE, key |-> key, hasKey |-> hasKey, tk |-> tk,
              kdf |-> kdf1, marks |-> FALSE]
        ELSE [ok |-> TRUE, key |-> k, hasKey |-> TRUE, tk |-> tk1,
              kdf |-> kdf1, marks |-> old # tk1]

\* Database::setKey(key, updateChangedTime, updateTransformSalt, transformKey)
SetKey(k, updateTransformSalt, transformKey, newSeed, kdfOk) ==
    LET r == SetKeyCalc(k, updateTransformSalt, transformKey, newSeed, kdfOk)
    IN  /\ pc = "idle"
        /\ ~isReadOnly
        /\ key' = r.key
        /\ hasKey' = r.hasKey
        /\ tk' = r.tk
        /\ kdf' = r.kdf
        /\ modified' = (modified \/ r.marks)
        /\ timer' = IF r.marks THEN MarkTimer(emitModified, timer) ELSE timer
        /\ pc' = "done"
        /\ res' = [StartedKey("setkey", k) EXCEPT !.ok = r.ok,
                       !.salt = updateTransformSalt, !.tr = transformKey]
        /\ UNCHANGED <<fs, tmp, filePath, isReadOnly, initialized,
                       emitModified, watch, tree, sv, crVars,
                       treeVars, moreVars>>

SetKeyAct ==
    \E k \in {NullKey} \cup UserKeys, salt \in BOOLEAN, tr \in BOOLEAN,
       newSeed \in Seeds, kdfOk \in BOOLEAN :
        SetKey(k, salt, tr, newSeed, kdfOk)

\* Database::changeKdf(kdf)
ChangeKdf(type, newSeed, kdfOk) ==
    LET kdf1 == [type |-> type, seed |-> newSeed]
        key1 == IF key = NullKey THEN EmptyComposite ELSE key
    IN  /\ pc = "idle"
        /\ ~isReadOnly
        /\ key' = key1
        /\ IF kdfOk
           THEN /\ kdf' = kdf1
                /\ tk' = Transform(key1, kdf1)
                /\ modified' = TRUE
                /\ timer' = MarkTimer(emitModified, timer)
           ELSE UNCHANGED <<kdf, tk, modified, timer>>
        /\ pc' = "done"
        /\ res' = [StartedKey("changekdf", key) EXCEPT !.ok = kdfOk]
        /\ UNCHANGED <<fs, tmp, filePath, isReadOnly, initialized,
                       emitModified, watch, tree, hasKey, sv, crVars,
                       treeVars, moreVars>>

ChangeKdfAct ==
    \E type \in KdfTypes, newSeed \in Seeds, kdfOk \in BOOLEAN :
        ChangeKdf(type, newSeed, kdfOk)

\* Database::setKey with a composite key that holds a challenge-response
\* component
SetDeviceKeyAct ==
    \E k \in DeviceKeys, salt \in BOOLEAN, tr \in BOOLEAN, newSeed \in Seeds,
       kdfOk \in BOOLEAN :
        SetKey(k, salt, tr, newSeed, kdfOk)

\* Database::challengeMasterSeed(masterSeed)
ChallengeMasterSeed(seed, devOk) ==
    LET c == Challenge(key, seed, devOk)
    IN  /\ pc = "idle"
        /\ pc' = "done"
        /\ IF key # NullKey
           THEN /\ masterSeed' = seed
                /\ crKey' = IF c.ok THEN c.response ELSE crKey
                /\ res' = [StartedKey("challenge", key) EXCEPT !.ok = c.ok,
                               !.devOk = c.ok]
           ELSE /\ res' = [StartedKey("challenge", key) EXCEPT !.ok = FALSE]
                /\ UNCHANGED crVars
        /\ UNCHANGED <<fs, tmp, dbVars, keyVars, sv, treeVars, moreVars>>

ChallengeMasterSeedAct ==
    \E seed \in Seeds, devOk \in BOOLEAN : ChallengeMasterSeed(seed, devOk)

\* a verifyKey that goes on to compare the raw keys when the device failed
VerifyKeyDeviceIgnored(k, devOk) ==
    LET c == Challenge(k, masterSeed, devOk)
    IN  IF crKey # EmptyRaw /\ c.ok /\ crKey # c.response
        THEN FALSE
        ELSE RawKey(key) = RawKey(k)

\* Database::verifyKey(key): its return value
VerifyKeyCalc(k, devOk) ==
    LET c == Challenge(k, masterSeed, devOk)
    IN  IF crKey # EmptyRaw /\ ~c.ok
        THEN FALSE
        ELSE IF crKey # EmptyRaw /\ crKey # c.response
        THEN FALSE
        ELSE RawKey(key) = RawKey(k)

\* Database::verifyKey(key); it has no error argument and changes nothing
VerifyKey(k, devOk) ==
    /\ pc = "idle"
    /\ hasKey
    /\ pc' = "done"
    /\ res' = [StartedKey("verify", k) EXCEPT !.ok = VerifyKeyCalc(k, devOk),
                   !.devOk = Challenge(k, masterSeed, devOk).ok]
    /\ UNCHANGED <<fs, tmp, dbVars, keyVars, sv, crVars, treeVars, moreVars>>

VerifyKeyAct ==
    \E k \in UserKeys \cup DeviceKeys \cup OtherKeys, devOk \in BOOLEAN :
        VerifyKey(k, devOk)

\* a change of the tree or the metadata: Database::markAsModified
Edit(t) ==
    /\ pc = "idle"
    /\ t # tree
    /\ tree' = t
    /\ modified' = TRUE
    /\ timer' = MarkTimer(emitModified, timer)
    /\ UNCHANGED <<fs, tmp, pc, filePath, isReadOnly, initialized, emitModified,
                   watch, keyVars, sv, res, crVars,
                   treeVars, moreVars>>

EditAct == \E t \in Trees : Edit(t)

\* another program replaces or deletes a database file
ExternalWrite(f, c) ==
    /\ pc = "idle"
    /\ fs[f] # c
    /\ fs' = [fs EXCEPT ![f] = c]
    /\ UNCHANGED <<tmp, pc, dbVars, keyVars, sv, res, crVars, treeVars, moreVars>>

ExternalWriteAct ==
    \E f \in Files, c \in Contents \cup {NoFile} : ExternalWrite(f, c)

\* ------------------------------------------------------------ file system
\* QFile::remove: the files after the call (a missing file, or a refused
\* removal, changes nothing)
Remove(files, f, ok) == IF ok THEN [files EXCEPT ![f] = NoFile] ELSE files

\* QFile::copy succeeds only if the source exists and the target does not
CopyOk(files, from, to, ok) == ok /\ files[from] # NoFile /\ files[to] = NoFile

\* a copy that takes the source away, as a rename would
CopyMove(files, from, to, ok) ==
    IF CopyOk(files, from, to, ok)
    THEN [files EXCEPT ![to] = files[from], ![from] = NoFile]
    ELSE files

\* QFile::copy: the files after the call
Copy(files, from, to, ok) ==
    IF CopyOk(files, from, to, ok) THEN [files EXCEPT ![to] = files[from]] ELSE files

\* QFile::rename of the temporary file succeeds only if the target is absent
RenameOk(files, f, ok) == ok /\ files[f] = NoFile

\* a commit that writes in place, so that a failure leaves a truncated target
CommitInPlace(files, f, t, ok) == [files EXCEPT ![f] = IF ok THEN t ELSE Partial]

\* QSaveFile::commit: the target after the call
Commit(files, f, t, ok) == IF ok THEN [files EXCEPT ![f] = t] ELSE files

\* a backup that removes the file itself instead of the previous backup
BackupRemovesTarget(files, f, rmOk, cpOk) ==
    Copy(Remove(files, f, rmOk), f, BackupPath(f), cpOk)

\* Database::backupDatabase: the files after the call
BackupFiles(files, f, rmOk, cpOk) ==
    Copy(Remove(files, BackupPath(f), rmOk), f, BackupPath(f), cpOk)

\* Database::backupDatabase: its return value
BackupOk(files, f, rmOk, cpOk) ==
    CopyOk(Remove(files, BackupPath(f), rmOk), f, BackupPath(f), cpOk)

\* Database::restoreDatabase: the files after the call
RestoreFiles(files, f, rmOk, cpOk) ==
    IF files[RestorePath(f)] # NoFile
    THEN Copy(Remove(files, f, rmOk), RestorePath(f), f, cpOk)
    ELSE files

\* Database::restoreDatabase: its return value
RestoreOk(files, f, rmOk, cpOk) ==
    /\ files[RestorePath(f)] # NoFile
    /\ CopyOk(Remove(files, f, rmOk), RestorePath(f), f, cpOk)

\* ------------------------------------------------------------------ save
\* the path as given, never resolved
SavePathRaw(path, files) == path

\* the path saveAs hands to performSave and to the file watcher
SavePath(path, files) == IF files[FileOf(path)] # NoFile THEN Canon(path) ELSE path

\* a saveAs that watches the file again and keeps the modified flag whatever
\* performSave returned
SaveFinishRewatch(ok, err, files, emit) ==
    /\ pc' = "done"
    /\ fs' = files
    /\ res' = [res EXCEPT !.ok = ok, !.err = err]
    /\ emitModified' = emit
    /\ modified' = IF ok THEN FALSE ELSE modified
    /\ timer' = IF ok THEN FALSE ELSE timer
    /\ filePath' = IF ok THEN sv.path ELSE filePath
    /\ watch' = WatchStart(sv.wpath, files)
    /\ UNCHANGED <<isReadOnly, initialized, tree>>

\* the tail of saveAs once performSave has returned; emit is m_emitModified
\* as writeDatabase left it
SaveFinish(ok, err, files, emit) ==
    /\ pc' = "done"
    /\ fs' = files
    /\ res' = [res EXCEPT !.ok = ok, !.err = err]
    /\ emitModified' = emit
    /\ IF ok
       THEN /\ modified' = FALSE
            /\ timer' = FALSE
            /\ filePath' = sv.path
            /\ watch' = WatchStart(sv.wpath, files)
       ELSE /\ modified' = TRUE
            /\ timer' = MarkTimer(emit, timer)
            /\ UNCHANGED <<filePath, watch>>
    /\ UNCHANGED <<isReadOnly, initialized, tree>>

\* a saveAs that never looks at the read-only flag
ReadOnlyIgnored(path) == FALSE

\* saveAs: the target is the Database's own path and the Database is read-only
ReadOnlyTarget(path) == path = filePath /\ isReadOnly

\* a saveAs that never asks the file watcher
UnmergedIgnored(path, same) == FALSE

\* saveAs: the target is the Database's own path and the file watcher reports
\* another checksum than the one it recorded
UnmergedChanges(path, same) == path = filePath /\ ~same

\* Database::saveAs up to the call of performSave
SaveAsBegin(path, atomic, backup, same) ==
    LET r0 == [Started("save", path) EXCEPT !.same = same]
        Reject(e) == /\ pc' = "done"
                     /\ res' = [r0 EXCEPT !.ok = FALSE, !.err = e]
                     /\ UNCHANGED <<isReadOnly, watch, sv>>
    IN  /\ pc = "idle"
        /\ watch.path # NoPath => same = SameChecksum
        /\ IF ReadOnlyTarget(path)
           THEN Reject("readonly")
           ELSE IF UnmergedChanges(path, same)
           THEN Reject("unmerged")
           ELSE /\ pc' = "write"
                /\ res' = r0
                /\ isReadOnly' = FALSE
                /\ watch' = NoWatch
                /\ sv' = [NoSave EXCEPT !.path = path, !.atomic = atomic,
                                        !.backup = backup,
                                        !.wpath = SavePath(path, fs),
                                        !.new = Enc(tree)]
        /\ UNCHANGED <<fs, tmp, filePath, modified, initialized, emitModified,
                       timer, tree, keyVars, crVars,
                       treeVars, moreVars>>

\* Database::saveAs(filePath, error, atomic, backup)
SaveAs ==
    \E path \in Paths, atomic \in BOOLEAN, backup \in BOOLEAN, same \in BOOLEAN :
        SaveAsBegin(path, atomic, backup, same)

\* Database::save(error, atomic, backup)
Save ==
    \E atomic \in BOOLEAN, backup \in BOOLEAN, same \in BOOLEAN :
        IF filePath = NoPath
        THEN /\ pc = "idle"
             /\ pc' = "done"
             /\ res' = [Started("save", NoPath) EXCEPT !.ok = FALSE, !.err = "nopath"]
             /\ UNCHANGED <<fs, tmp, dbVars, keyVars, sv, crVars, treeVars, moreVars>>
        ELSE SaveAsBegin(filePath, atomic, backup, same)

\* the key check at the end of Database::writeDatabase
KeyTransformed(old, new) == ~(new = EmptyRaw \/ new = old)

\* KeePass2Writer::writeDatabase sets the key again under a freshly drawn
\* seed before it encrypts
WriterSetKey(newSeed, kdfOk) == SetKeyCalc(key, TRUE, TRUE, newSeed, kdfOk)

\* KeePass2Writer::hasError
WriterError(keyOk, wr) == ~keyOk \/ wr # "ok"

\* performSave: open the save file or the temporary file and writeDatabase
\* into it
WriteStep(openOk, newSeed, kdfOk, wr) ==
    LET old == IF hasKey THEN tk ELSE EmptyRaw
        r == WriterSetKey(newSeed, kdfOk)
    IN  /\ pc = "write"
        /\ UNCHANGED <<crVars, treeVars, moreVars>>
        /\ IF ~openOk
           THEN /\ tmp' = NoFile
                /\ SaveFinish(FALSE, IF sv.atomic THEN "saveopen" ELSE "tempopen",
                              fs, emitModified)
                /\ UNCHANGED <<keyVars, sv>>
           ELSE IF isReadOnly
           THEN /\ tmp' = NoFile
                /\ SaveFinish(FALSE, "readonlywrite", fs, emitModified)
                /\ UNCHANGED <<keyVars, sv>>
           ELSE /\ key' = r.key
                /\ hasKey' = r.hasKey
                /\ tk' = r.tk
                /\ kdf' = r.kdf
                /\ IF WriterError(r.ok, wr)
                   THEN /\ tmp' = NoFile
                        /\ SaveFinish(FALSE, "writer", fs, TRUE)
                        /\ UNCHANGED sv
                   ELSE IF ~KeyTransformed(old, r.tk)
                   THEN /\ tmp' = NoFile
                        /\ SaveFinish(FALSE, "keynottransformed", fs, TRUE)
                        /\ UNCHANGED sv
                   ELSE /\ tmp' = sv.new
                        /\ pc' = IF sv.backup THEN "backup"
                                 ELSE IF sv.atomic THEN "commit" ELSE "remove"
                        /\ emitModified' = TRUE
                        /\ modified' = (modified \/ r.marks)
                        /\ timer' = SetEmitTimer(emitModified, timer, FALSE)
                        /\ UNCHANGED <<fs, filePath, isReadOnly, watch,
                                       initialized, tree, sv, res>>

WriteAct ==
    \E openOk \in BOOLEAN, newSeed \in Seeds, kdfOk \in BOOLEAN,
       wr \in {"ok", "error"} :
        WriteStep(openOk, newSeed, kdfOk, wr)

\* performSave: backupDatabase(filePath) when a backup was asked for
BackupStep(rmOk, cpOk) ==
    LET f == FileOf(sv.path)
    IN  /\ pc = "backup"
        /\ fs' = BackupFiles(fs, f, rmOk, cpOk)
        /\ sv' = [sv EXCEPT !.bakOk = BackupOk(fs, f, rmOk, cpOk)]
        /\ pc' = IF sv.atomic THEN "commit" ELSE "remove"
        /\ UNCHANGED <<tmp, dbVars, keyVars, res, crVars, treeVars, moreVars>>

BackupAct == \E rmOk \in BOOLEAN, cpOk \in BOOLEAN : BackupStep(rmOk, cpOk)

\* performSave, atomic: QSaveFile::commit
CommitStep(ok) ==
    /\ pc = "commit"
    /\ tmp' = NoFile
    /\ SaveFinish(ok, IF ok THEN "none" ELSE "commit",
                  Commit(fs, FileOf(sv.path), tmp, ok), emitModified)
    /\ UNCHANGED <<keyVars, sv, crVars, treeVars, moreVars>>

CommitAct == \E ok \in BOOLEAN : CommitStep(ok)

\* performSave, not atomic: QFile::remove(filePath)
RemoveStep(ok) ==
    /\ pc = "remove"
    /\ fs' = Remove(fs, FileOf(sv.path), ok)
    /\ pc' = "rename"
    /\ UNCHANGED <<tmp, dbVars, keyVars, sv, res, crVars, treeVars, moreVars>>

RemoveAct == \E ok \in BOOLEAN : RemoveStep(ok)

\* performSave, not atomic: rename the temporary file onto the target; when
\* that fails and no backup was asked for, leave the temporary file
RenameStep(ok) ==
    LET f == FileOf(sv.path)
    IN  /\ pc = "rename"
        /\ UNCHANGED <<crVars, treeVars, moreVars>>
        /\ IF RenameOk(fs, f, ok)
           THEN /\ tmp' = NoFile
                /\ SaveFinish(TRUE, "none", [fs EXCEPT ![f] = tmp], emitModified)
                /\ UNCHANGED <<keyVars, sv>>
           ELSE IF ~sv.backup
           THEN /\ tmp' = tmp
                /\ SaveFinish(FALSE, "temppath", fs, emitModified)
                /\ UNCHANGED <<keyVars, sv>>
           ELSE /\ pc' = "restore"
                /\ UNCHANGED <<fs, tmp, dbVars, keyVars, sv, res>>

RenameAct == \E ok \in BOOLEAN : RenameStep(ok)

\* performSave, not atomic: restoreDatabase(filePath) after a failed rename;
\* the temporary file is removed exactly when the restore succeeded
RestoreStep(rmOk, cpOk) ==
    LET f == FileOf(sv.path)
        ok == RestoreOk(fs, f, rmOk, cpOk)
    IN  /\ pc = "restore"
        /\ tmp' = IF ok THEN NoFile ELSE tmp
        /\ sv' = [sv EXCEPT !.restored = ok]
        /\ SaveFinish(FALSE, IF ok THEN "restored" ELSE "temppath",
                      RestoreFiles(fs, f, rmOk, cpOk), emitModified)
        /\ UNCHANGED <<keyVars, crVars, treeVars, moreVars>>

RestoreAct == \E rmOk \in BOOLEAN, cpOk \in BOOLEAN : RestoreStep(rmOk, cpOk)

\* ------------------------------------------------------ tree operations
RECURSIVE InDb(_, _)
\* Group::database() is this Database: the group is the root or lies below it
InDb(st, g) == g = Root \/ (st.gp[g] \in Groups /\ InDb(st, st.gp[g]))

LiveGroup(st, g) == st.gp[g] \notin {Dead, Unborn}
LiveEntry(st, e) == st.eg[e] # Dead

\* the destructor of an entry that leaves no tombstone while it is in the bin
DeleteEntryQuietInBin(st, e) ==
    LET g == st.eg[e]
    IN  [st EXCEPT !.eg[e] = Dead, !.hist[e] = <<>>,
                   !.led = IF g \in Groups /\ InDb(st, g) /\ g # st.bin
                           THEN Append(@, e) ELSE @]

\* Entry::~Entry: leave the group, record a tombstone when the group belongs to
\* a Database, destroy the history items (which have no group)
DeleteEntrySt(st, e) ==
    LET g == st.eg[e]
    IN  [st EXCEPT !.eg[e] = Dead, !.hist[e] = <<>>,
                   !.led = IF g \in Groups /\ InDb(st, g)
                           THEN Append(@, e) ELSE @]

RECURSIVE DeleteEntriesSt(_, _, _)
\* delete the entries a group lists, from the i-th on
DeleteEntriesSt(st, g, i) ==
    IF i > Len(EntryOrder) THEN st
    ELSE DeleteEntriesSt(IF st.eg[EntryOrder[i]] = g
                         THEN DeleteEntrySt(st, EntryOrder[i]) ELSE st, g, i + 1)

RECURSIVE DeleteGroupSt(_, _)
RECURSIVE DeleteChildrenSt(_, _, _)
\* delete the child groups a group lists, from the i-th on
DeleteChildrenSt(st, g, i) ==
    IF i > Len(GroupOrder) THEN st
    ELSE DeleteChildrenSt(IF st.gp[GroupOrder[i]] = g
                          THEN DeleteGroupSt(st, GroupOrder[i]) ELSE st, g, i + 1)

\* Group::~Group: destroy the entries and the child groups, record a tombstone
\* when the group belongs to a Database and has a parent, leave the parent; the
\* recycle-bin reference of the metadata does not outlive its group
DeleteGroupSt(st, g) ==
    LET s2 == DeleteChildrenSt(DeleteEntriesSt(st, g, 1), g, 1)
    IN  [s2 EXCEPT !.gp[g] = Dead,
                   !.led = IF InDb(s2, g) /\ s2.gp[g] \in Groups
                           THEN Append(@, g) ELSE @,
                   !.bin = IF @ = g THEN NoGroup ELSE @]

\* a setGroup that records a tombstone whenever the entry leaves a group
SetGroupTombstones(st, e, g) ==
    LET old == st.eg[e]
    IN  IF old = g THEN st
        ELSE [st EXCEPT !.eg[e] = g,
                        !.led = IF old \in Groups /\ InDb(st, old)
                                THEN Append(@, e) ELSE @]

\* Entry::setGroup: nothing for the group it is in; else leave the old group,
\* with a tombstone when that group's Database is not the new group's
SetGroupSt(st, e, g) ==
    LET old == st.eg[e]
    IN  IF old = g THEN st
        ELSE [st EXCEPT !.eg[e] = g,
                        !.led = IF old \in Groups /\ InDb(st, old) /\ ~InDb(st, g)
                                THEN Append(@, e) ELSE @]

\* Group::setParent to a group of the same Database: a move
SetParentSt(st, g, parent) == [st EXCEPT !.gp[g] = parent]

\* a recycle operation that never looks for the bin of the metadata
BinAlwaysMissing(st) == TRUE

\* !m_metadata->recycleBin()
BinMissing(st) == st.bin = NoGroup

\* Database::createRecycleBin: a new group below the root, searching and
\* auto-type disabled, recorded in the metadata
CreateRecycleBinSt(st) ==
    LET b == CHOOSE x \in BinGroups : st.gp[x] = Unborn
    IN  [st EXCEPT !.gp[b] = Root, !.off = @ \cup {b}, !.bin = b,
                   !.made = @ + 1]

\* Database::recycleEntry
RecycleEntrySt(st, e) ==
    IF st.enabled
    THEN LET s1 == IF BinMissing(st) THEN CreateRecycleBinSt(st) ELSE st
         IN  SetGroupSt(s1, e, s1.bin)
    ELSE DeleteEntrySt(st, e)

\* a recycleGroup that moves the group below the root instead of the bin
RecycleGroupToRoot(st, g) ==
    IF st.enabled
    THEN LET s1 == IF BinMissing(st) THEN CreateRecycleBinSt(st) ELSE st
         IN  SetParentSt(s1, g, Root)
    ELSE DeleteGroupSt(st, g)

\* Database::recycleGroup
RecycleGroupSt(st, g) ==
    IF st.enabled
    THEN LET s1 == IF BinMissing(st) THEN CreateRecycleBinSt(st) ELSE st
         IN  SetParentSt(s1, g, s1.bin)
    ELSE DeleteGroupSt(st, g)

\* Database::emptyRecycleBin
EmptyRecycleBinSt(st) ==
    IF st.enabled /\ st.bin # NoGroup
    THEN DeleteChildrenSt(DeleteEntriesSt(st, st.bin, 1), st.bin, 1)
    ELSE st

RECURSIVE GroupIsRecycled(_, _)
\* Group::isRecycled: the group belongs to the Database and a group above it is
\* the recycle bin
GroupIsRecycled(st, g) ==
    /\ InDb(st, g)
    /\ st.gp[g] \in Groups
    /\ (st.gp[g] = st.bin \/ GroupIsRecycled(st, st.gp[g]))

\* Entry::isRecycled: false without a Database, else the group is the bin or
\* is recycled
EntryIsRecycled(st, e) ==
    LET g == st.eg[e]
    IN  IF ~(g \in Groups /\ InDb(st, g)) THEN FALSE
        ELSE g = st.bin \/ GroupIsRecycled(st, g)

\* an addDeletedObject that skips a uuid the ledger already holds
AddDeletedObjectOnce(st, u) ==
    IF \E i \in 1..Len(st.led) : st.led[i] = u THEN st
    ELSE [st EXCEPT !.led = Append(@, u)]

\* Database::addDeletedObject
AddDeletedObjectSt(st, u) == [st EXCEPT !.led = Append(@, u)]

RECURSIVE ContainsFrom(_, _, _)
\* the loop of Database::containsDeletedObject from the i-th tombstone on
ContainsFrom(led, u, i) ==
    IF i > Len(led) THEN FALSE
    ELSE IF led[i] = u THEN TRUE
    ELSE ContainsFrom(led, u, i + 1)

\* Database::containsDeletedObject(uuid)
ContainsDeletedObject(u) == ContainsFrom(ledger, u, 1)

RECURSIVE KeepItems(_, _, _)
\* the items of h at the positions in keep, from the i-th on, in order
KeepItems(h, keep, i) ==
    IF i > Len(h) THEN <<>>
    ELSE IF i \in keep THEN <<h[i]>> \o KeepItems(h, keep, i + 1)
    ELSE KeepItems(h, keep, i + 1)

\* Entry::removeHistoryItems: the items are deleted, no tombstone is recorded
RemoveHistoryItemsSt(st, e, items) ==
    [st EXCEPT !.hist[e] = KeepItems(@, (1..Len(@)) \ items, 1)]

\* a first pass that keeps the oldest maxItems items
CountPassOldest(h, maxItems) ==
    IF maxItems > 0 - 1 /\ Len(h) > maxItems THEN SubSeq(h, 1, maxItems) ELSE h

\* truncateHistory, first pass: keep the newest maxItems items
CountPass(h, maxItems) ==
    IF maxItems > 0 - 1 /\ Len(h) > maxItems
    THEN SubSeq(h, Len(h) - maxItems + 1, Len(h))
    ELSE h

RECURSIVE SizeWalkOlderOnly(_, _, _, _)
\* a second pass that deletes an item only when the size counted before it
\* was already above the limit
SizeWalkOlderOnly(h, i, size, maxSize) ==
    IF i = 0 THEN <<>>
    ELSE LET size1 == IF size <= maxSize THEN size + h[i] ELSE size
         IN  IF size > maxSize
             THEN SizeWalkOlderOnly(h, i - 1, size1, maxSize)
             ELSE Append(SizeWalkOlderOnly(h, i - 1, size1, maxSize), h[i])

RECURSIVE SizeWalk(_, _, _, _)
\* truncateHistory, second pass, at item i with the size counted so far
SizeWalk(h, i, size, maxSize) ==
    IF i = 0 THEN <<>>
    ELSE LET size1 == IF size <= maxSize THEN size + h[i] ELSE size
         IN  IF size1 > maxSize
             THEN SizeWalk(h, i - 1, size1, maxSize)
             ELSE Append(SizeWalk(h, i - 1, size1, maxSize), h[i])

SizePass(h, maxSize) ==
    IF maxSize > 0 - 1 THEN SizeWalk(h, Len(h), 0, maxSize) ELSE h

\* Entry::truncateHistory with the limits of the metadata
TruncateHistorySt(st, e, maxItems, maxSize) ==
    IF st.eg[e] \in Groups /\ InDb(st, st.eg[e])
    THEN [st EXCEPT !.hist[e] = SizePass(CountPass(@, maxItems), maxSize)]
    ELSE st

\* the metadata was changed: metadataModified is connected to markAsModified
MetadataModified(st) ==
    (st.bin # bin /\ st.bin # NoGroup) \/ st.enabled # binEnabled

\* a tree operation as a step: op names it, e, g and u are its arguments;
\* removeHistoryItems emits entryModified, which sets m_modifiedSinceBegin
TreeStep(op, e, g, u, st) ==
    /\ pc = "idle"
    /\ ~isReadOnly
    /\ Len(st.led) <= MaxLedger
    /\ pc' = "done"
    /\ entryGroup' = st.eg
    /\ groupParent' = st.gp
    /\ history' = st.hist
    /\ ledger' = st.led
    /\ binEnabled' = st.enabled
    /\ bin' = st.bin
    /\ flagsOff' = st.off
    /\ binsMade' = IF op \in {"recycleEntry", "recycleGroup"} THEN st.made ELSE 0
    /\ tres' = [op |-> op, e |-> e, g |-> g, u |-> u, pre |-> Objects]
    /\ modifiedSinceBegin' =
           (modifiedSinceBegin \/ (op = "removeHistoryItems" /\ e = SessionEntry))
    /\ touched' = (touched \/ (op = "removeHistoryItems" /\ e = SessionEntry))
    /\ modified' = (modified \/ MetadataModified(st))
    /\ timer' = IF MetadataModified(st) THEN MarkTimer(emitModified, timer)
                ELSE timer
    /\ UNCHANGED <<fs, tmp, filePath, isReadOnly, initialized, emitModified,
                   watch, tree, keyVars, sv, res, crVars, entryData,
                   tmpHistoryItem, eres, otherVars>>

CanMakeBin(st) ==
    (st.enabled /\ BinMissing(st)) => \E x \in BinGroups : st.gp[x] = Unborn

RecycleEntryAct ==
    \E e \in Entries :
        /\ entryGroup[e] \in Groups
        /\ CanMakeBin(Objects)
        /\ TreeStep("recycleEntry", e, NoGroup, NoGroup, RecycleEntrySt(Objects, e))

\* a group of the Database; the root and the bin itself are never recycled
RecycleGroupAct ==
    \E g \in Groups \ {Root} :
        /\ LiveGroup(Objects, g)
        /\ InDb(Objects, g)
        /\ g # bin
        /\ CanMakeBin(Objects)
        /\ TreeStep("recycleGroup", NoGroup, g, NoGroup, RecycleGroupSt(Objects, g))

EmptyRecycleBinAct ==
    TreeStep("emptyRecycleBin", NoGroup, NoGroup, NoGroup, EmptyRecycleBinSt(Objects))

\* delete entry
DeleteEntryAct ==
    \E e \in Entries :
        /\ LiveEntry(Objects, e)
        /\ TreeStep("deleteEntry", e, NoGroup, NoGroup, DeleteEntrySt(Objects, e))

SetGroupAct ==
    \E e \in Entries, g \in Groups :
        /\ LiveEntry(Objects, e)
        /\ LiveGroup(Objects, g)
        /\ TreeStep("setGroup", e, g, NoGroup, SetGroupSt(Objects, e, g))

AddDeletedObjectAct ==
    \E u \in Uuids :
        TreeStep("addDeletedObject", NoGroup, NoGroup, u, AddDeletedObjectSt(Objects, u))

\* Metadata::setRecycleBinEnabled
SetRecycleBinEnabledAct ==
    \E b \in BOOLEAN :
        /\ b # binEnabled
        /\ TreeStep("setRecycleBinEnabled", NoGroup, NoGroup, NoGroup,
                    [Objects EXCEPT !.enabled = b])

RemoveHistoryItemsAct ==
    \E e \in Entries :
        /\ LiveEntry(Objects, e)
        /\ \E items \in (SUBSET (1..Len(history[e]))) \ {{}} :
              TreeStep("removeHistoryItems", e, NoGroup, NoGroup,
                       RemoveHistoryItemsSt(Objects, e, items))

TruncateHistoryAct ==
    \E e \in Entries, maxItems \in (0 - 1)..MaxHist, maxSize \in (0 - 1)..MaxSize :
        /\ LiveEntry(Objects, e)
        /\ TreeStep("truncateHistory", e, NoGroup, NoGroup,
                    TruncateHistorySt(Objects, e, maxItems, maxSize))

\* ------------------------------------------------------- update sessions
\* Entry::beginUpdate: the snapshot holds the values the entry has now
BeginUpdate ==
    /\ pc = "idle"
    /\ LiveEntry(Objects, SessionEntry)
    /\ tmpHistoryItem = NullItem
    /\ tmpHistoryItem' = entryData
    /\ modifiedSinceBegin' = FALSE
    /\ touched' = FALSE
    /\ UNCHANGED <<fs, tmp, pc, dbVars, keyVars, sv, res, crVars, treeVars,
                   entryData, eres, otherVars>>

\* Entry::set: the value and m_modifiedSinceBegin after the call
Set(cur, flag, v) ==
    IF cur # v THEN [data |-> v, flag |-> TRUE] ELSE [data |-> cur, flag |-> flag]

\* a setter of the entry (setTitle and the like) called with v
SetField(v) ==
    /\ pc = "idle"
    /\ LiveEntry(Objects, SessionEntry)
    /\ entryData' = Set(entryData, modifiedSinceBegin, v).data
    /\ modifiedSinceBegin' = Set(entryData, modifiedSinceBegin, v).flag
    /\ touched' = (touched \/ entryData # v)
    /\ UNCHANGED <<fs, tmp, pc, dbVars, keyVars, sv, res, crVars, treeVars,
                   tmpHistoryItem, eres, otherVars>>

SetFieldAct == \E v \in Sizes : SetField(v)

\* an endUpdate that compares the entry with the snapshot
EndUpdateCompares(flag, snap, data) == snap # data

\* Entry::endUpdate: whether the snapshot goes to the history
EndUpdateAppends(flag, snap, data) == flag

\* what endUpdate does: "append" the pending snapshot, "discard" it, and with
\* no snapshot pending "nothing" or, m_modifiedSinceBegin being set, the call
\* through the null m_tmpHistoryItem: a "crash", or the "null" item appended
\* where the build lets the call through and no size pass reads the item;
\* what the program does after either is not followed
EndUpdateOutcome(lim, ub, inDb) ==
    IF tmpHistoryItem # NullItem
    THEN IF EndUpdateAppends(modifiedSinceBegin, tmpHistoryItem, entryData)
         THEN "append" ELSE "discard"
    ELSE IF ~modifiedSinceBegin THEN "nothing"
    ELSE IF ub = "null" /\ (lim.size = 0 - 1 \/ ~inDb) THEN "null"
    ELSE "crash"

\* Entry::endUpdate with the history limits lim of the metadata
EndUpdate(lim, ub) ==
    LET e == SessionEntry
        inDb == entryGroup[e] \in Groups /\ InDb(Objects, entryGroup[e])
        out == EndUpdateOutcome(lim, ub, inDb)
        added == [Objects EXCEPT !.hist[e] = Append(@, tmpHistoryItem)]
    IN  /\ pc = "idle"
        /\ LiveEntry(Objects, e)
        /\ Len(history[e]) <= MaxHist
        /\ pc' = IF out \in {"crash", "null"} THEN "broken" ELSE "done"
        /\ history' = IF out \in {"append", "null"}
                      THEN TruncateHistorySt(added, e, lim.items, lim.size).hist
                      ELSE history
        /\ tmpHistoryItem' = NullItem
        /\ eres' = [op |-> "endUpdate", hist |-> history[e],
                    snap |-> tmpHistoryItem, flag |-> modifiedSinceBegin,
                    data |-> entryData, lim |-> lim, inDb |-> inDb, out |-> out,
                    ret |-> modifiedSinceBegin]
        /\ UNCHANGED <<fs, tmp, dbVars, keyVars, sv, res, crVars, entryGroup,
                       groupParent, ledger, binEnabled, bin, flagsOff, binsMade,
                       tres, entryData, modifiedSinceBegin, touched, otherVars>>

EndUpdateAct ==
    \E maxItems \in (0 - 1)..MaxHist, maxSize \in (0 - 1)..MaxSize,
       ub \in {"crash", "null"} :
        EndUpdate([items |-> maxItems, size |-> maxSize], ub)

\* -------------------------------------------------- placeholder resolution
\* A string is the sequence of its tokens: pieces of plain text and bracketed
\* tokens. The expression (\{[^\}]+\}) finds the bracketed tokens, and from an
\* opening bracket left in the text everything up to the end of the next
\* bracketed token.
ResolveMaximumDepth == 10
\* the bracketed tokens that start with {REF:
RefTokens == {"{REF:T@U:bob}", "{REF:T@I:e1}", "{REF:T@I:e2}", "{REF:P@I:e2}",
              "{REF:T@U:eve}", "{REF:bad}"}
BraceTokens == {"{TITLE}", "{title}", "{USERNAME}", "{PASSWORD}", "{ENTER}"}
                   \cup RefTokens
\* a piece of text with an opening bracket and no closing one
OpenText == "{A"
NoMatch == [field |-> "", by |-> "", text |-> <<>>]

\* EntryAttributes::matchReference: the parts of {REF:<field>@<by>:<text>}
MatchReference(str) ==
    IF Len(str) # 1 THEN NoMatch
    ELSE CASE str[1] = "{REF:T@U:bob}" -> [field |-> "T", by |-> "U", text |-> <<"bob">>]
           [] str[1] = "{REF:T@I:e1}" -> [field |-> "T", by |-> "I", text |-> <<"e1">>]
           [] str[1] = "{REF:T@I:e2}" -> [field |-> "T", by |-> "I", text |-> <<"e2">>]
           [] str[1] = "{REF:P@I:e2}" -> [field |-> "P", by |-> "I", text |-> <<"e2">>]
           [] str[1] = "{REF:T@U:eve}" -> [field |-> "T", by |-> "U", text |-> <<"eve">>]
           [] OTHER -> NoMatch

\* QString::toUpper of a bracketed token
ToUpper(tok) == IF tok = "{title}" THEN "{TITLE}" ELSE tok

\* Entry::placeholderType
PlaceholderType(str) ==
    IF \/ str = <<>>
       \/ str[1] \notin BraceTokens \cup {OpenText}
       \/ str[Len(str)] \notin BraceTokens
    THEN "NotPlaceholder"
    ELSE IF str[1] \in RefTokens THEN "Reference"
    ELSE IF Len(str) # 1 THEN "Unknown"
    ELSE CASE ToUpper(str[1]) = "{TITLE}" -> "Title"
           [] ToUpper(str[1]) = "{USERNAME}" -> "UserName"
           [] ToUpper(str[1]) = "{PASSWORD}" -> "Password"
           [] OTHER -> "Unknown"

\* Entry::referenceType
ReferenceType(x) ==
    CASE x = "T" -> "Title"
      [] x = "U" -> "UserName"
      [] x = "P" -> "Password"
      [] x = "I" -> "QUuid"
      [] OTHER -> "Unknown"

\* a field accessor that reads the neighbouring field
StoredValueOther(at, e, f) == at[e][IF f = "Title" THEN "UserName" ELSE "Title"]

\* Entry::title, username and password: the stored value of the field
StoredValue(at, e, f) == at[e][f]

\* Entry::referenceFieldValue
ReferenceFieldValue(at, e, type) ==
    IF type \in Fields THEN StoredValue(at, e, type)
    ELSE IF type = "QUuid" THEN <<e>>
    ELSE <<>>

\* Group::findEntryBySearchTerm from the root group: the first entry of the
\* Database whose field holds the text
FindEntryBySearchTerm(at, text, type) ==
    LET hits == {i \in 1..Len(EntryOrder) :
                    /\ entryGroup[EntryOrder[i]] \in Groups
                    /\ InDb(Objects, entryGroup[EntryOrder[i]])
                    /\ ReferenceFieldValue(at, EntryOrder[i], type) = text}
    IN  IF hits = {} THEN NoGroup
        ELSE EntryOrder[CHOOSE i \in hits : \A j \in hits : i <= j]

RECURSIVE Replace(_, _, _)
\* QString::replace(found, by): every occurrence of found in the text is
\* replaced, inside a longer bracketed token too
Replace(str, found, by) ==
    IF Len(str) < Len(found) THEN str
    ELSE IF SubSeq(str, 1, Len(found)) = found
    THEN by \o Replace(SubSeq(str, Len(found) + 1, Len(str)), found, by)
    ELSE <<Head(str)>> \o Replace(Tail(str), found, by)

\* the end of the match of (\{[^\}]+\}) that starts at token i (0: none does)
MatchEnd(str, i) ==
    IF str[i] \in BraceTokens THEN i
    ELSE IF str[i] = OpenText /\ \E j \in (i + 1)..Len(str) : str[j] \in BraceTokens
    THEN CHOOSE j \in (i + 1)..Len(str) :
            /\ str[j] \in BraceTokens
            /\ \A k \in (i + 1)..(j - 1) : str[k] \notin BraceTokens
    ELSE 0

\* a depth test that lets a budget of zero through
ExhaustedBelow(d) == d < 0

\* if (maxDepth <= 0): the budget is used up
Exhausted(d) == d <= 0

\* a reference resolved in the context of the referencing entry
RefContextSelf(e, ref) == e

\* the entry in whose context the value of a reference is resolved
RefContext(e, ref) == ref

\* a call's value with the log of the calls below it and of the call itself:
\* the function and its budget, its caller's, and whether it returned its input
Called(pfn, pd, fn, d, in, r) ==
    [val |-> r.val,
     log |-> r.log \cup {[fn |-> fn, d |-> d, pfn |-> pfn, pd |-> pd,
                          same |-> r.val = in]}]

RECURSIVE ResolveMultiplePlaceholdersRecursive(_, _, _, _)
RECURSIVE ResolvePlaceholderRecursive(_, _, _, _)
RECURSIVE ResolveReferencePlaceholderRecursive(_, _, _, _)
RECURSIVE ReplaceLoop(_, _, _, _, _, _)

\* resolvePlaceholderRecursive, NotPlaceholder and Unknown
ResolveUnknown(at, e, ph, d) ==
    Called("placeholder", d, "multiple", d - 1, ph,
           ResolveMultiplePlaceholdersRecursive(at, e, ph, d - 1))

\* the loop of resolveMultiplePlaceholdersRecursive over the matches in str,
\* from token i on, with the result so far
ReplaceLoop(at, e, str, i, result, d) ==
    IF i > Len(str) THEN [val |-> result, log |-> {}]
    ELSE IF MatchEnd(str, i) = 0 THEN ReplaceLoop(at, e, str, i + 1, result, d)
    ELSE LET found == SubSeq(str, i, MatchEnd(str, i))
             r == Called("multiple", d, "placeholder", d - 1, found,
                         ResolvePlaceholderRecursive(at, e, found, d - 1))
             rest == ReplaceLoop(at, e, str, MatchEnd(str, i) + 1,
                                 Replace(result, found, r.val), d)
         IN  [val |-> rest.val, log |-> r.log \cup rest.log]

\* Entry::resolveMultiplePlaceholdersRecursive
ResolveMultiplePlaceholdersRecursive(at, e, str, d) ==
    IF Exhausted(d) THEN [val |-> str, log |-> {}]
    ELSE LET loop == ReplaceLoop(at, e, str, 1, str, d)
             again == Called("multiple", d, "multiple", d - 1, loop.val,
                             ResolveMultiplePlaceholdersRecursive(at, e, loop.val, d - 1))
         IN  IF loop.val # str
             THEN [val |-> again.val, log |-> loop.log \cup again.log]
             ELSE loop

\* Entry::resolvePlaceholderRecursive
ResolvePlaceholderRecursive(at, e, ph, d) ==
    IF Exhausted(d) THEN [val |-> ph, log |-> {}]
    ELSE LET type == PlaceholderType(ph)
         IN  IF type \in {"NotPlaceholder", "Unknown"}
             THEN ResolveUnknown(at, e, ph, d)
             ELSE IF type \in Fields
             THEN IF PlaceholderType(StoredValue(at, e, type)) = type
                  THEN [val |-> StoredValue(at, e, type), log |-> {}]
                  ELSE Called("placeholder", d, "multiple", d - 1,
                              StoredValue(at, e, type),
                              ResolveMultiplePlaceholdersRecursive(
                                  at, e, StoredValue(at, e, type), d - 1))
             ELSE Called("placeholder", d, "reference", d, ph,
                         ResolveReferencePlaceholderRecursive(at, e, ph, d))

\* Entry::resolveReferencePlaceholderRecursive
ResolveReferencePlaceholderRecursive(at, e, ph, d) ==
    IF Exhausted(d) THEN [val |-> ph, log |-> {}]
    ELSE LET match == MatchReference(ph)
             refEntry == FindEntryBySearchTerm(at, match.text, ReferenceType(match.by))
             value == ReferenceFieldValue(at, refEntry, ReferenceType(match.field))
         IN  IF match = NoMatch THEN [val |-> ph, log |-> {}]
             ELSE IF refEntry = NoGroup THEN [val |-> <<>>, log |-> {}]
             ELSE Called("reference", d, "multiple", d - 1, value,
                         ResolveMultiplePlaceholdersRecursive(
                             at, RefContext(e, refEntry), value, d - 1))

\* a resolution as a step: op names the function, e the entry, str its argument
ResolveStep(op, e, str, r) ==
    /\ pc = "idle"
    /\ LiveEntry(Objects, e)
    /\ pc' = "done"
    /\ rres' = [op |-> op, e |-> e, in |-> str, out |-> r.val, log |-> r.log]
    /\ UNCHANGED <<fs, tmp, dbVars, keyVars, sv, res, crVars, treeVars, entryVars,
                   attributes, rootGroup, owned, guiVars>>

\* the strings handed to the resolver besides the fields of the entries
Inputs == {<<"{TITLE}">>, <<"{USERNAME}", "{ENTER}">>, <<"{ENTER}">>,
           <<"{REF:T@U:bob}">>, <<"Hello">>, <<OpenText, "{TITLE}", "{TITLE}">>}

\* Entry::resolveMultiplePlaceholders(str)
ResolveMultiplePlaceholders ==
    \E e \in Entries : \E str \in Inputs \cup {attributes[e][f] : f \in Fields} :
        ResolveStep("resolveMultiplePlaceholders", e, str,
                    Called("none", ResolveMaximumDepth, "multiple",
                           ResolveMaximumDepth, str,
                           ResolveMultiplePlaceholdersRecursive(
                               attributes, e, str, ResolveMaximumDepth)))

\* Entry::resolvePlaceholder(placeholder)
ResolvePlaceholder ==
    \E e \in Entries, tok \in BraceTokens :
        ResolveStep("resolvePlaceholder", e, <<tok>>,
                    Called("none", ResolveMaximumDepth, "placeholder",
                           ResolveMaximumDepth, <<tok>>,
                           ResolvePlaceholderRecursive(
                               attributes, e, <<tok>>, ResolveMaximumDepth)))

\* the caller has looked at the result; the next operation may start
\* ---------------------------------------------- backup and restore alone
\* Database::backupDatabase(filePath) on its own; the path names the file "a"
\* and the name backupDatabase computes names the file "a.old"
BackupDatabaseAct ==
    \E rmOk \in BOOLEAN, cpOk \in BOOLEAN :
        /\ pc = "idle"
        /\ pc' = "done"
        /\ fs' = BackupFiles(fs, "a", rmOk, cpOk)
        /\ res' = [Started("backupDatabase", NoPath) EXCEPT
                       !.ok = BackupOk(fs, "a", rmOk, cpOk)]
        /\ UNCHANGED <<tmp, dbVars, keyVars, sv, crVars, treeVars, moreVars>>

\* Database::restoreDatabase(filePath) on its own; it finds the file
\* backupDatabase wrote exactly when it computes the name that one computed
\* (no other file lies under another name)
RestoreDatabaseAct ==
    \E rmOk \in BOOLEAN, cpOk \in BOOLEAN :
        LET found == RestoreFileName(filePath) = BackupFileName(filePath)
        IN  /\ pc = "idle"
            /\ pc' = "done"
            /\ fs' = IF found THEN RestoreFiles(fs, "a", rmOk, cpOk) ELSE fs
            /\ res' = [Started("restoreDatabase", NoPath) EXCEPT
                           !.ok = found /\ RestoreOk(fs, "a", rmOk, cpOk)]
            /\ UNCHANGED <<tmp, dbVars, keyVars, sv, crVars, treeVars, moreVars>>

\* ------------------------------------------------------- the root group
\* Database::setRootGroup with a group from outside the tree: the pointer is
\* set and the group is given to the Database; the previous root group is left
\* to the caller
SetRootGroupAct ==
    \E g \in Groups :
        /\ pc = "idle"
        /\ LiveGroup(Objects, g)
        /\ groupParent[g] = NoGroup
        /\ g # rootGroup
        /\ rootGroup' = g
        /\ owned' = owned \cup {g}
        /\ UNCHANGED <<fs, tmp, pc, dbVars, keyVars, sv, res, crVars, treeVars,
                       entryVars, attributes, rres, guiVars>>

\* Database::releaseData, called while the Database object is still held: the
\* data is cleared, the root group is deleted when the Database owns it, the
\* file watcher is deleted, the tombstones are cleared; m_rootGroup is not
\* assigned
ReleaseData ==
    LET st == IF rootGroup \in owned THEN DeleteGroupSt(Objects, rootGroup)
              ELSE Objects
    IN  /\ pc = "idle"
        /\ pc' = "released"
        /\ filePath' = NoPath
        /\ isReadOnly' = FALSE
        /\ key' = NullKey
        /\ hasKey' = FALSE
        /\ tk' = EmptyRaw
        /\ masterSeed' = NoSeed
        /\ crKey' = EmptyRaw
        /\ watch' = NoWatch
        /\ entryGroup' = st.eg
        /\ groupParent' = st.gp
        /\ history' = st.hist
        /\ ledger' = <<>>
        /\ binEnabled' = st.enabled
        /\ bin' = st.bin
        /\ flagsOff' = st.off
        /\ binsMade' = st.made
        /\ initialized' = FALSE
        /\ modified' = FALSE
        /\ UNCHANGED <<fs, tmp, emitModified, timer, tree, kdf, sv, res, tres,
                       entryVars, otherVars>>

Return ==
    /\ pc = "done"
    /\ pc' = "idle"
    /\ res' = NoRes
    /\ sv' = NoSave
    /\ tmp' = NoFile
    /\ UNCHANGED <<fs, dbVars, keyVars, crVars, objVars, sessionVars, attributes,
                   rootGroup, owned, guiVars>>
    /\ tres' = NoTres
    /\ eres' = NoEres
    /\ rres' = NoRres

Next ==
    \/ OpenAct
    \/ EditAct
    \/ ExternalWriteAct
    \/ Save
    \/ SaveAs
    \/ WriteAct
    \/ BackupAct
    \/ CommitAct
    \/ RemoveAct
    \/ RenameAct
    \/ RestoreAct
    \/ Return

Spec == Init /\ [][Next]_vars

\* the same operations with the key operations, on the Database's own path
NextKeys ==
    \/ OpenAct
    \/ SetKeyAct
    \/ ChangeKdfAct
    \/ Save
    \/ WriteAct
    \/ BackupAct
    \/ CommitAct
    \/ RemoveAct
    \/ RenameAct
    \/ RestoreAct
    \/ Return

SpecKeys == Init /\ [][NextKeys]_vars

\* the key operations alone, with keys that hold a challenge-response device
NextVerify ==
    \/ SetKeyAct
    \/ SetDeviceKeyAct
    \/ ChangeKdfAct
    \/ ChallengeMasterSeedAct
    \/ VerifyKeyAct
    \/ Return

SpecVerify == Init /\ [][NextVerify]_vars

\* a Database with two entries, each in the root, in the group below it or in
\* a group outside the Database, the first with or without history
InitTree ==
    /\ fs = NoFiles
    /\ tmp = NoFile
    /\ pc = "idle"
    /\ filePath = NoPath
    /\ isReadOnly = FALSE
    /\ modified = FALSE
    /\ initialized = FALSE
    /\ emitModified = TRUE
    /\ timer = FALSE
    /\ watch = NoWatch
    /\ tree = DefaultTree
    /\ key = NullKey
    /\ hasKey = FALSE
    /\ tk = EmptyRaw
    /\ kdf = [type |-> "AES", seed |-> 1]
    /\ sv = NoSave
    /\ res = NoRes
    /\ masterSeed = NoSeed
    /\ crKey = EmptyRaw
    /\ \E eg \in [Entries -> {Root, "g1", "gx"}], en \in BOOLEAN,
          h \in {<<>>, <<MaxSize, 1>>} :
            ObjectsAre([NoObjects EXCEPT !.eg = eg, !.enabled = en,
                                         !.hist = [e \in Entries |->
                                                     IF e = "e1" THEN h ELSE <<>>]])
    /\ tres = NoTres
    /\ entryData = 1
    /\ NoSession
    /\ attributes = NoAttributes
    /\ rres = NoRres
    /\ Constructed
    /\ Detached

NextTree ==
    \/ RecycleEntryAct
    \/ RecycleGroupAct
    \/ EmptyRecycleBinAct
    \/ DeleteEntryAct
    \/ SetGroupAct
    \/ AddDeletedObjectAct
    \/ SetRecycleBinEnabledAct
    \/ RemoveHistoryItemsAct
    \/ TruncateHistoryAct
    \/ Return

SpecTree == InitTree /\ [][NextTree]_vars

\* a group with a subgroup, or two sibling groups, entries in them, and the
\* recycle operations
InitRecycle ==
    /\ fs = NoFiles
    /\ tmp = NoFile
    /\ pc = "idle"
    /\ filePath = NoPath
    /\ isReadOnly = FALSE
    /\ modified = FALSE
    /\ initialized = FALSE
    /\ emitModified = TRUE
    /\ timer = FALSE
    /\ watch = NoWatch
    /\ tree = DefaultTree
    /\ key = NullKey
    /\ hasKey = FALSE
    /\ tk = EmptyRaw
    /\ kdf = [type |-> "AES", seed |-> 1]
    /\ sv = NoSave
    /\ res = NoRes
    /\ masterSeed = NoSeed
    /\ crKey = EmptyRaw
    /\ \E eg \in [Entries -> {Root, "g1", "gx"}], en \in BOOLEAN,
          p \in {Root, "g1"} :
            ObjectsAre([NoObjects EXCEPT !.eg = eg, !.enabled = en,
                                         !.gp["gx"] = p])
    /\ tres = NoTres
    /\ entryData = 1
    /\ NoSession
    /\ attributes = NoAttributes
    /\ rres = NoRres
    /\ Constructed
    /\ Detached

NextRecycle ==
    \/ RecycleGroupAct
    \/ RecycleEntryAct
    \/ SetGroupAct
    \/ SetRecycleBinEnabledAct
    \/ Return

SpecRecycle == InitRecycle /\ [][NextRecycle]_vars

\* the Database, its file operations and its root group
NextRoot ==
    \/ OpenAct
    \/ EditAct
    \/ ExternalWriteAct
    \/ Save
    \/ WriteAct
    \/ BackupAct
    \/ CommitAct
    \/ RemoveAct
    \/ RenameAct
    \/ RestoreAct
    \/ SetRootGroupAct
    \/ ReleaseData
    \/ Return

SpecRoot == Init /\ [][NextRoot]_vars

\* a database file at a path of up to MaxPath characters, with or without an
\* earlier backup
InitBackup ==
    /\ fs \in [Files \cup BakFiles -> Contents \cup {NoFile}]
    /\ tmp = NoFile
    /\ pc = "idle"
    /\ filePath \in UNION {[1..n -> {"a", ".", "nl"}] : n \in 1..MaxPath}
    /\ isReadOnly = FALSE
    /\ modified = FALSE
    /\ initialized = FALSE
    /\ emitModified = TRUE
    /\ timer = FALSE
    /\ watch = NoWatch
    /\ tree = DefaultTree
    /\ key = NullKey
    /\ hasKey = FALSE
    /\ tk = EmptyRaw
    /\ kdf = [type |-> "AES", seed |-> 1]
    /\ sv = NoSave
    /\ res = NoRes
    /\ masterSeed = NoSeed
    /\ crKey = EmptyRaw
    /\ ObjectsAre(NoObjects)
    /\ tres = NoTres
    /\ entryData = 1
    /\ NoSession
    /\ attributes = NoAttributes
    /\ rres = NoRres
    /\ Constructed
    /\ Detached

NextBackup ==
    \/ ExternalWriteAct
    \/ BackupDatabaseAct
    \/ RestoreDatabaseAct
    \/ Return

SpecBackup == InitBackup /\ [][NextBackup]_vars

\* a new entry, in the Database or outside it, and its update sessions
InitEntry ==
    /\ fs = NoFiles
    /\ tmp = NoFile
    /\ pc = "idle"
    /\ filePath = NoPath
    /\ isReadOnly = FALSE
    /\ modified = FALSE
    /\ initialized = FALSE
    /\ emitModified = TRUE
    /\ timer = FALSE
    /\ watch = NoWatch
    /\ tree = DefaultTree
    /\ key = NullKey
    /\ hasKey = FALSE
    /\ tk = EmptyRaw
    /\ kdf = [type |-> "AES", seed |-> 1]
    /\ sv = NoSave
    /\ res = NoRes
    /\ masterSeed = NoSeed
    /\ crKey = EmptyRaw
    /\ \E g \in {Root, "gx"} :
            ObjectsAre([NoObjects EXCEPT !.eg[SessionEntry] = g])
    /\ tres = NoTres
    /\ entryData = 1
    /\ NoSession
    /\ attributes = NoAttributes
    /\ rres = NoRres
    /\ Constructed
    /\ Detached

NextEntry ==
    \/ BeginUpdate
    \/ SetFieldAct
    \/ EndUpdateAct
    \/ RemoveHistoryItemsAct
    \/ Return

SpecEntry == InitEntry /\ [][NextEntry]_vars

\* two entries of the Database with their fields, and the resolver
InitResolve ==
    /\ fs = NoFiles
    /\ tmp = NoFile
    /\ pc = "idle"
    /\ filePath = NoPath
    /\ isReadOnly = FALSE
    /\ modified = FALSE
    /\ initialized = FALSE
    /\ emitModified = TRUE
    /\ timer = FALSE
    /\ watch = NoWatch
    /\ tree = DefaultTree
    /\ key = NullKey
    /\ hasKey = FALSE
    /\ tk = EmptyRaw
    /\ kdf = [type |-> "AES", seed |-> 1]
    /\ sv = NoSave
    /\ res = NoRes
    /\ masterSeed = NoSeed
    /\ crKey = EmptyRaw
    /\ ObjectsAre(NoObjects)
    /\ tres = NoTres
    /\ entryData = 1
    /\ NoSession
    /\ rres = NoRres
    /\ Constructed
    /\ Detached
    /\ \E t1 \in {<<"Hello">>, <<"{PASSWORD}">>, <<"{TITLE}">>, <<"{REF:T@U:bob}">>,
                   <<"{REF:T@I:e2}">>, <<"{REF:P@I:e2}">>, <<"{ENTER}", "Hello">>},
          u1 \in {<<"bob">>, <<"{TITLE}">>},
          p1 \in {<<"secret">>, <<"{PASSWORD}">>, <<"{title}">>},
          t2 \in {<<"Hello">>, <<"{REF:T@I:e1}">>, <<"{USERNAME}">>},
          p2 \in {<<"secret">>, <<"{PASSWORD}">>, <<"{title}">>} :
            attributes =
                [e \in Entries |->
                    IF e = "e1"
                    THEN [f \in Fields |-> CASE f = "Title" -> t1
                                             [] f = "UserName" -> u1
                                             [] f = "Password" -> p1]
                    ELSE [f \in Fields |-> CASE f = "Title" -> t2
                                             [] f = "UserName" -> <<"bob">>
                                             [] f = "Password" -> p2]]

NextResolve ==
    \/ ResolveMultiplePlaceholders
    \/ ResolvePlaceholder
    \/ Return

SpecResolve == InitResolve /\ [][NextResolve]_vars

\* ---------------------------------------------------------------- claims
Target == FileOf(res.path)
SaveRan == res.op = "save" /\ res.path # NoPath
SaveDone == pc = "done" /\ SaveRan
SaveFailed == SaveDone /\ ~res.ok
SaveOk == SaveDone /\ res.ok
RenameFailed == res.err \in {"temppath", "restored"}
OpenDone == pc = "done" /\ res.op = "open"

\* C1 as stated: after every failed save the file that was at the target path
\* is still there with its bytes of before the call.
C1_FailedSaveKeepsTarget ==
    (SaveFailed /\ res.fs[Target] # NoFile) => fs[Target] = res.fs[Target]

\* C1, amended: a failed save leaves the target's bytes as they were unless it
\* is a non-atomic save whose rename failed; after a failed rename the target
\* is unchanged, or absent with the new content kept in the temporary file, or
\* restored with the bytes of the backup file.
C1_FailedSaveTarget ==
    (SaveFailed /\ res.fs[Target] # NoFile) =>
        IF RenameFailed
        THEN \/ fs[Target] = res.fs[Target]
             \/ fs[Target] = NoFile /\ tmp = sv.new
             \/ sv.restored /\ fs[Target] = fs[RestorePath(Target)]
        ELSE fs[Target] = res.fs[Target]

C1_Witness ==
    /\ SaveFailed
    /\ res.err = "commit"
    /\ res.fs[Target] # NoFile
    /\ sv.new # res.fs[Target]

\* C2: during and after an atomic save the target holds its bytes of before the
\* save until the commit, and afterwards those or the complete new bytes; after
\* a failed save it holds the bytes of before.
C2_AtomicOldOrNew ==
    (SaveRan /\ sv.atomic) =>
        /\ pc \in {"write", "backup", "commit"} => fs[Target] = res.fs[Target]
        /\ SaveOk => fs[Target] = sv.new
        /\ SaveFailed => fs[Target] = res.fs[Target]

C2_Witness ==
    /\ SaveOk
    /\ sv.atomic
    /\ sv.backup
    /\ res.fs[Target] # NoFile
    /\ fs[Target] # res.fs[Target]

\* C3: an atomic save with backup whose commit fails after the backup copy
\* succeeded returns failure, the backup file holds the target's bytes of before
\* the save, and so does the target.
C3_CommitFailsAfterBackup ==
    (SaveDone /\ sv.atomic /\ sv.backup /\ sv.bakOk /\ res.err = "commit") =>
        /\ ~res.ok
        /\ res.fs[Target] # NoFile
        /\ fs[BackupPath(Target)] = res.fs[Target]
        /\ fs[Target] = res.fs[Target]

C3_Witness ==
    /\ SaveDone
    /\ sv.atomic /\ sv.backup /\ sv.bakOk
    /\ res.err = "commit"
    /\ res.fs[BackupPath(Target)] # res.fs[Target]

C6_RenameFailure ==
    (SaveDone /\ RenameFailed) =>
        /\ ~res.ok
        /\ \/ sv.restored /\ fs[Target] = res.fs[Target]
           \/ tmp = sv.new /\ res.err = "temppath"

C8_SavedAndWatchedCanonical ==
    SaveOk =>
        /\ ~modified
        /\ filePath = res.path
        /\ watch = WatchStart(Canon(res.path), fs)

\* C8, amended: after a successful save the Database is not modified, its file
\* path is the path saved to and the monitoring runs on the canonical form of
\* that path when the target existed before the save, and on the path as given
\* when it did not.
C8_SavedAndWatched ==
    SaveOk =>
        /\ ~modified
        /\ filePath = res.path
        /\ watch = WatchStart(IF res.fs[Target] # NoFile THEN Canon(res.path)
                              ELSE res.path, fs)

C8_Witness ==
    /\ SaveOk
    /\ res.path # Canon(res.path)
    /\ res.fs[Target] # NoFile
    /\ res.mod

\* C9: after every failed open the Database is not initialized and its tree and
\* key are those of a default empty instance.
C9_FailedOpenIsDefault ==
    (OpenDone /\ ~res.ok) =>
        /\ ~initialized
        /\ tree = DefaultTree
        /\ key = NullKey /\ ~hasKey /\ tk = EmptyRaw

SetKeyDone == pc = "done" /\ res.op = "setkey"
ChangeKdfDone == pc = "done" /\ res.op = "changekdf"
VerifyDone == pc = "done" /\ res.op = "verify"

\* C11: after a successful setKey(K), verifyKey(K') with reachable devices
\* returns true exactly when K' has the components of K, the challenge-response
\* component included.
C11_VerifyMatchesKey ==
    (VerifyDone /\ res.devOk) => (res.ok <=> res.arg = key)

\* C12: a changeKdf whose key derivation fails returns failure and leaves the
\* KDF configuration, the key (also whether there is a key object at all), the
\* transformed key and the modified flag as they were.
C12_FailedChangeKdfKeepsState ==
    (ChangeKdfDone /\ ~res.ok) =>
        /\ kdf = res.kdf
        /\ key = res.key /\ hasKey = res.hasKey
        /\ tk = res.tk
        /\ modified = res.mod

\* C13: a setKey whose key derivation fails returns failure and leaves the key,
\* hasKey, the transformed key and the KDF seed as they were, also when
\* updateTransformSalt was asked for.
C13_FailedSetKeyKeepsState ==
    (SetKeyDone /\ ~res.ok) =>
        /\ key = res.key /\ hasKey = res.hasKey
        /\ tk = res.tk
        /\ kdf = res.kdf

\* C14: after a successful setKey, also one that clears the key, the Database
\* is modified if the transformed key differs from the one held before, and
\* setKey has not set the modified flag if they are equal.
C14_ModifiedIffKeyChanged ==
    (SetKeyDone /\ res.ok) =>
        /\ tk # res.tk => modified
        /\ tk = res.tk => modified = res.mod

\* C15 as stated: a verifyKey whose challenge-response device fails reports a
\* device error, which a key mismatch never does.
C15_DeviceFailureIsError ==
    VerifyDone =>
        ((res.crKey # EmptyRaw /\ ~res.devOk) <=> res.err = "device")

\* C15, amended: verifyKey reports nothing but a boolean; when a response is
\* cached and the candidate's device fails it returns false, as it does for a
\* wrong response or a wrong password, and without a cached response it
\* compares the raw keys without asking the device.
C15_DeviceFailureIsFalse ==
    VerifyDone =>
        /\ res.err = "none"
        /\ (res.crKey # EmptyRaw /\ ~res.devOk) => ~res.ok
        /\ RawKey(res.arg) # RawKey(key) => ~res.ok
        /\ res.crKey = EmptyRaw => (res.ok <=> RawKey(res.arg) = RawKey(key))
        /\ keyVars = <<res.key, res.hasKey, res.tk, res.kdf>>

C15_Witness ==
    /\ VerifyDone
    /\ res.crKey # EmptyRaw
    /\ ~res.devOk
    /\ res.arg = key
    /\ ~res.ok

TreeDone(op) == pc = "done" /\ tres.op = op
Pre == tres.pre
RecycleDone == pc = "done" /\ tres.op \in {"recycleEntry", "recycleGroup"}
BornBins(st) == {b \in BinGroups : st.gp[b] # Unborn}
Tombstoned(u) == \E i \in 1..Len(ledger) : ledger[i] = u
\* the tombstones recorded since the operation began
NewTombstones ==
    IF Len(ledger) >= Len(Pre.led) /\ SubSeq(ledger, 1, Len(Pre.led)) = Pre.led
    THEN {ledger[i] : i \in (Len(Pre.led) + 1)..Len(ledger)}
    ELSE {"lost"}
RECURSIVE UnderBin(_, _)
\* the group is the bin or lies below it
UnderBin(st, g) ==
    g # NoGroup /\ (g = st.bin \/ (g \in Groups /\ st.gp[g] \in Groups
                                      /\ UnderBin(st, st.gp[g])))

\* C16: recycleEntry on an entry of the Database: with the bin enabled the
\* entry lives on with its history, its group is the bin group and the ledger
\* is as it was; with the bin disabled the entry is destroyed and the ledger
\* has grown by exactly one tombstone, with the entry's uuid.
C16_RecycleEntry ==
    (TreeDone("recycleEntry") /\ InDb(Pre, Pre.eg[tres.e])) =>
        IF Pre.enabled
        THEN /\ bin # NoGroup /\ LiveGroup(Objects, bin)
             /\ entryGroup[tres.e] = bin
             /\ history[tres.e] = Pre.hist[tres.e]
             /\ ledger = Pre.led
        ELSE /\ entryGroup[tres.e] = Dead
             /\ ledger = Append(Pre.led, tres.e)

C16_Witness ==
    /\ TreeDone("recycleEntry")
    /\ Pre.enabled
    /\ Pre.eg[tres.e] = "g1" /\ InDb(Pre, "g1")
    /\ Pre.hist[tres.e] # <<>>
    /\ Pre.led # <<>>

\* C17: destroying a live entry that belongs to a group takes it out of the
\* group and appends exactly one tombstone with its uuid when the group belongs
\* to the Database, also when the group is the bin, and none when it does not;
\* destroying history items, with their entry, by truncateHistory or by
\* removeHistoryItems, appends no tombstone.
C17_EntryTombstone ==
    /\ (TreeDone("deleteEntry") /\ Pre.eg[tres.e] \in Groups) =>
          /\ entryGroup[tres.e] = Dead
          /\ history[tres.e] = <<>>
          /\ ledger = IF InDb(Pre, Pre.eg[tres.e])
                      THEN Append(Pre.led, tres.e) ELSE Pre.led
    /\ (TreeDone("removeHistoryItems") \/ TreeDone("truncateHistory")) =>
          /\ ledger = Pre.led
          /\ Len(history[tres.e]) <= Len(Pre.hist[tres.e])
          /\ entryGroup = Pre.eg

C17_Witness ==
    /\ TreeDone("deleteEntry")
    /\ Pre.bin # NoGroup
    /\ Pre.eg[tres.e] = Pre.bin
    /\ Pre.hist[tres.e] # <<>>
    /\ Len(ledger) = Len(Pre.led) + 1

\* what emptyRecycleBin leaves when it empties the bin
BinEmptied ==
    /\ bin = Pre.bin /\ LiveGroup(Objects, bin)
    /\ \A e \in Entries : entryGroup[e] # bin
    /\ \A g \in Groups : groupParent[g] # bin
    /\ \A e \in Entries : Pre.eg[e] = Pre.bin => (entryGroup[e] = Dead
                                                   /\ e \in NewTombstones)
    /\ \A e \in Entries : ~UnderBin(Pre, Pre.eg[e]) =>
          (entryGroup[e] = Pre.eg[e] /\ history[e] = Pre.hist[e])
    /\ \A g \in Groups : ~UnderBin(Pre, g) => groupParent[g] = Pre.gp[g]

\* C18: after emptyRecycleBin on a Database that has a bin group the
\* bin has no child entries and no child groups and still exists, every
\* destroyed direct child entry has a tombstone, and what lies outside the bin
\* is untouched.
C18_BinEmptied ==
    (TreeDone("emptyRecycleBin") /\ Pre.bin # NoGroup) => BinEmptied

\* C19: a bin group is created only by a recycle operation, and by it exactly
\* when the bin is enabled and the metadata names no bin; it is created below
\* the root with searching and auto-type disabled and named in the metadata; a
\* recycle operation that finds a bin named keeps it; any run of recycle
\* operations creates at most one bin.
C19_OneBin ==
    /\ binsMade <= 1
    /\ (pc = "done" /\ ~RecycleDone) => BornBins(Objects) = BornBins(Pre)
    /\ RecycleDone =>
          IF Pre.enabled /\ Pre.bin = NoGroup
          THEN /\ BornBins(Objects) = BornBins(Pre) \cup {bin}
               /\ bin \notin BornBins(Pre)
               /\ groupParent[bin] = Root
               /\ bin \in flagsOff
          ELSE /\ BornBins(Objects) = BornBins(Pre)
               /\ bin = Pre.bin

C19_Witness ==
    /\ TreeDone("recycleGroup")
    /\ Pre.enabled /\ Pre.bin # NoGroup
    /\ Pre.made = 1
    /\ groupParent[tres.g] = bin

\* C20: addDeletedObject appends the tombstone at the end of the ledger, also
\* when the ledger already holds one with that uuid, and leaves the earlier
\* ones in place; containsDeletedObject(uuid) is true exactly when some
\* tombstone of the ledger carries the uuid.
C20_LedgerAppend ==
    /\ TreeDone("addDeletedObject") => ledger = Append(Pre.led, tres.u)
    /\ \A u \in Entries \cup Groups : ContainsDeletedObject(u) <=> Tombstoned(u)

C20_Witness ==
    /\ TreeDone("addDeletedObject")
    /\ \E i \in 1..Len(Pre.led) : Pre.led[i] = tres.u
    /\ Len(ledger) = Len(Pre.led) + 1

\* an endUpdate has returned, or has broken the program
EndRan == eres.op = "endUpdate" /\ pc \in {"done", "broken"}
EndDone == pc = "done" /\ EndRan
\* it ended a session: a snapshot was pending
SessionEnded == EndDone /\ eres.snap # NullItem
\* the history after retention trimming of h with the limits of the call
Trimmed(h) ==
    IF eres.inDb THEN SizePass(CountPass(h, eres.lim.items), eres.lim.size) ELSE h
\* the history with the snapshot appended and trimmed
WithSnapshot == Trimmed(Append(eres.hist, eres.snap))

\* C21, as stated: the endUpdate of a session appends the snapshot (and trims)
\* exactly when the values of the entry differ from those of the snapshot,
\* and otherwise leaves the history as it was
C21_AppendsIffValuesDiffer ==
    SessionEnded =>
        history[SessionEntry] = IF eres.data # eres.snap THEN WithSnapshot
                                ELSE eres.hist

\* C21, amended: the endUpdate of a session appends the snapshot (and trims)
\* exactly when a value or the history was changed since beginUpdate, a value
\* changed and changed back included; with no change the history stays as it
\* was; either way no snapshot is pending afterwards
C21_AppendsIffModified ==
    SessionEnded =>
        /\ history[SessionEntry] = IF touched THEN WithSnapshot ELSE eres.hist
        /\ eres.ret = touched
        /\ tmpHistoryItem = NullItem

\* a session that changed the value and changed it back has ended, and its
\* snapshot is the newest item of the history
C21_Witness ==
    /\ SessionEnded
    /\ touched
    /\ eres.data = eres.snap
    /\ history[SessionEntry] = Append(eres.hist, eres.snap)

\* the n newest items of h, all of h if it has fewer
Newest(h, n) == SubSeq(h, Len(h) - (IF n < Len(h) THEN n ELSE Len(h)) + 1, Len(h))
\* every snapshot the history could hold after the endUpdate
AllSnapshots == IF touched THEN Append(eres.hist, eres.snap) ELSE eres.hist
\* the endUpdate of a session of an entry of a Database with historyMaxItems >= 0
CountLimited == SessionEnded /\ eres.inDb /\ eres.lim.items >= 0

\* C22, as stated: with historyMaxItems N >= 0, after every endUpdate the
\* history holds the N most recent snapshots (all, if there are fewer), in
\* their order
C22_NewestNAfterEveryEndUpdate ==
    CountLimited => history[SessionEntry] = Newest(AllSnapshots, eres.lim.items)

\* C22, amended: with historyMaxItems N >= 0, after an endUpdate that appended
\* a snapshot the history holds at most N items, and they are the most recent
\* snapshots in their order: the N most recent (all, if there are fewer) when
\* historyMaxSize is negative
C22_NewestAfterAppend ==
    (CountLimited /\ touched) =>
        /\ Len(history[SessionEntry]) <= eres.lim.items
        /\ history[SessionEntry] = Newest(AllSnapshots, Len(history[SessionEntry]))
        /\ eres.lim.size = 0 - 1 =>
               history[SessionEntry] = Newest(AllSnapshots, eres.lim.items)

\* the third modifying session has ended with historyMaxItems = 2: the history
\* holds the snapshot of the second session and that of the third
C22_Witness ==
    /\ CountLimited
    /\ touched
    /\ eres.lim.items = 2
    /\ Len(eres.hist) = 2
    /\ history[SessionEntry] = <<eres.hist[2], eres.snap>>

RECURSIVE SumFrom(_, _)
\* the size estimates of the items of h from the i-th to the newest, added up
SumFrom(h, i) == IF i > Len(h) THEN 0 ELSE h[i] + SumFrom(h, i + 1)
\* walking from the newest item to the oldest, the position of the item at
\* which the running total first exceeds limit (0: the total never does)
Crossing(h, limit) ==
    IF \E i \in 1..Len(h) : SumFrom(h, i) > limit
    THEN CHOOSE i \in 1..Len(h) :
            /\ SumFrom(h, i) > limit
            /\ \A j \in (i + 1)..Len(h) : SumFrom(h, j) <= limit
    ELSE 0
\* an endUpdate has run the size pass; what the count pass handed to it
SizePassRan == SessionEnded /\ touched /\ eres.inDb /\ eres.lim.size >= 0
SizePassInput == CountPass(AllSnapshots, eres.lim.items)

\* C23, as stated: the size pass deletes the items older than the one at
\* which the running total first exceeds S, and no other item
C23_OlderThanCrossingDeleted ==
    SizePassRan =>
        LET k == Crossing(SizePassInput, eres.lim.size)
        IN  history[SessionEntry] =
                SubSeq(SizePassInput, IF k = 0 THEN 1 ELSE k, Len(SizePassInput))

\* C23, amended: the size pass deletes the item at which the running total
\* first exceeds S and every older item, whatever their sizes, and no other
C23_CrossingAndOlderDeleted ==
    SizePassRan =>
        history[SessionEntry] =
            SubSeq(SizePassInput, Crossing(SizePassInput, eres.lim.size) + 1,
                   Len(SizePassInput))

\* the size pass kept the newest item and deleted the item at which the total
\* exceeded S together with an older one
C23_Witness ==
    /\ SizePassRan
    /\ Crossing(SizePassInput, eres.lim.size) = 2
    /\ Len(SizePassInput) = 3
    /\ history[SessionEntry] = <<eres.snap>>

\* C24: an endUpdate with no snapshot pending returns and changes neither the
\* history nor any other state of the entry, whatever was modified before
C24_StrayEndUpdateNoOp ==
    (EndRan /\ eres.snap = NullItem) =>
        /\ pc = "done"
        /\ history[SessionEntry] = eres.hist
        /\ entryData = eres.data
        /\ modifiedSinceBegin = eres.flag
        /\ tmpHistoryItem = NullItem

\* a resolution has returned
ResolveDone(op) == pc = "done" /\ rres.op = op
Resolved == ResolveDone("resolveMultiplePlaceholders") \/ ResolveDone("resolvePlaceholder")

\* C25, as stated: every resolution returns, having started with a budget of
\* 10; every nested call has a strictly smaller budget than its caller, and a
\* call with a budget <= 0 returns its input
C25_BudgetStrictlySmaller ==
    Resolved =>
        \A c \in rres.log :
            /\ c.d \in 0..ResolveMaximumDepth
            /\ IF c.pfn = "none" THEN c.d = ResolveMaximumDepth ELSE c.d < c.pd
            /\ c.d <= 0 => c.same

\* C25, amended: the same, but resolvePlaceholderRecursive hands a reference
\* to resolveReferencePlaceholderRecursive with its own budget, and the calls
\* that function makes have a strictly smaller one
C25_BudgetDecreases ==
    Resolved =>
        \A c \in rres.log :
            /\ c.d \in 0..ResolveMaximumDepth
            /\ IF c.pfn = "none" THEN c.d = ResolveMaximumDepth
               ELSE IF c.fn = "reference" THEN c.pfn = "placeholder" /\ c.d = c.pd
               ELSE c.d < c.pd
            /\ c.d <= 0 => c.same

\* the titles of the two entries refer to each other, the title of the first
\* has been resolved and the budget was used up on the way
C25_Witness ==
    /\ ResolveDone("resolveMultiplePlaceholders")
    /\ rres.e = "e1"
    /\ rres.in = <<"{REF:T@I:e2}">>
    /\ attributes["e1"]["Title"] = <<"{REF:T@I:e2}">>
    /\ attributes["e2"]["Title"] = <<"{REF:T@I:e1}">>
    /\ \E c \in rres.log : c.d = 0 /\ c.same

\* a string without bracketed tokens
Plain(str) == \A i \in 1..Len(str) : str[i] \notin BraceTokens
\* resolvePlaceholder has returned for a default-field placeholder
FieldResolved ==
    ResolveDone("resolvePlaceholder") /\ PlaceholderType(rres.in) \in Fields
\* the value the entry stores in the field the placeholder names
Stored == attributes[rres.e][PlaceholderType(rres.in)]

\* C26: a default-field placeholder resolves to the stored value of its field
\* with the placeholders inside it expanded: to the value itself when it is
\* plain text, to the plain value of the other field when it is that field's
\* placeholder; when the stored value is the same placeholder, to that value
C26_FieldPlaceholder ==
    FieldResolved =>
        /\ Plain(Stored) => rres.out = Stored
        /\ PlaceholderType(Stored) = PlaceholderType(rres.in) => rres.out = Stored
        /\ \A f \in Fields \ {PlaceholderType(rres.in)} :
               (PlaceholderType(Stored) = f /\ Plain(attributes[rres.e][f]))
                   => rres.out = attributes[rres.e][f]

\* {TITLE} has been resolved to secret for an entry with the title {PASSWORD}
\* and the password secret
C26_Witness ==
    /\ FieldResolved
    /\ rres.in = <<"{TITLE}">>
    /\ attributes[rres.e]["Title"] = <<"{PASSWORD}">>
    /\ attributes[rres.e]["Password"] = <<"secret">>
    /\ rres.out = <<"secret">>

\* what a reference names: the field searched in, the field wanted
FieldNamed(x) ==
    CASE x = "T" -> "Title" [] x = "U" -> "UserName" [] x = "P" -> "Password"
      [] OTHER -> "none"
\* the entries of the tree whose searched field holds the text of the reference
RefHits(m) ==
    {i \in 1..Len(EntryOrder) :
        IF m.by = "I" THEN <<EntryOrder[i]>> = m.text
        ELSE attributes[EntryOrder[i]][FieldNamed(m.by)] = m.text}
\* resolvePlaceholder has returned for a well-formed reference
RefResolved ==
    ResolveDone("resolvePlaceholder") /\ MatchReference(rres.in) # NoMatch

\* C27: a reference resolves to the empty string when no entry matches, and
\* otherwise to the wanted field of the first matching entry expanded in that
\* entry's context: to the value itself when it is plain text, and to the
\* plain value of that entry's other field when it is that field's
\* placeholder; resolving the title {REF:T@U:bob} of the first entry, with the
\* second entry named bob and titled Hello, yields Hello
C27_Reference ==
    /\ RefResolved =>
          LET m == MatchReference(rres.in)
              hits == RefHits(m)
              ref == EntryOrder[CHOOSE i \in hits : \A j \in hits : i <= j]
              wanted == attributes[ref][FieldNamed(m.field)]
          IN  IF hits = {} THEN rres.out = <<>>
              ELSE /\ Plain(wanted) => rres.out = wanted
                   /\ \A f \in Fields \ {FieldNamed(m.field)} :
                          (PlaceholderType(wanted) = f /\ Plain(attributes[ref][f]))
                              => rres.out = attributes[ref][f]
    /\ ( /\ ResolveDone("resolveMultiplePlaceholders")
         /\ rres.e = "e1"
         /\ rres.in = <<"{REF:T@U:bob}">>
         /\ attributes["e1"]["UserName"] # <<"bob">>
         /\ attributes["e2"]["UserName"] = <<"bob">>
         /\ attributes["e2"]["Title"] = <<"Hello">> ) => rres.out = <<"Hello">>

\* the reference to the title of the second entry, which is {USERNAME}, has
\* been resolved for the first entry to the user name of the second, not to
\* its own
C27_Witness ==
    /\ RefResolved
    /\ rres.e = "e1"
    /\ rres.in = <<"{REF:T@I:e2}">>
    /\ attributes["e2"]["Title"] = <<"{USERNAME}">>
    /\ attributes["e1"]["UserName"] # <<"bob">>
    /\ rres.out = <<"bob">>

\* the unknown bracketed texts: the tokens that are no placeholder, and the
\* opening bracket with the bracketed token that ends it
UnknownTexts ==
    {<<t>> : t \in {x \in BraceTokens : PlaceholderType(<<x>>) = "Unknown"}}
        \cup {<<OpenText, t>> : t \in BraceTokens}
\* the places of a string at which a text stands
Places(str, text) ==
    {i \in 1..(Len(str) - Len(text) + 1) : SubSeq(str, i, i + Len(text) - 1) = text}

\* C28: every unknown bracketed text of the string handed to
\* resolveMultiplePlaceholders or resolvePlaceholder stands in the result
C28_UnknownTextKept ==
    Resolved =>
        \A text \in UnknownTexts :
            Places(rres.in, text) # {} => Places(rres.out, text) # {}
\* ------------------------------------------------------------------ C29
\* C29: in every reachable state of a Database - after construction, open,
\* save, setRootGroup and releaseData - rootGroup() designates an existing
\* group that the Database owns, never a destroyed one
C29_RootGroupExists ==
    /\ rootGroup \in Groups
    /\ LiveGroup(Objects, rootGroup)
    /\ rootGroup \in owned

\* ------------------------------------------------------------------ C30
BackupRan == pc = "done" /\ res.op = "backupDatabase"
RestoreRan == pc = "done" /\ res.op = "restoreDatabase"

\* a successful backup leaves the backup file a copy of the file, whatever
\* backup was there; a restore that finds a backup and succeeds leaves the
\* file with the backup's bytes, one that finds none returns false and
\* changes nothing
BackupRestoreFiles ==
    /\ (BackupRan /\ res.ok) =>
           (fs["a.old"] = res.fs["a"] /\ fs["a"] = res.fs["a"])
    /\ (RestoreRan /\ res.ok) =>
           (fs["a"] = res.fs["a.old"] /\ fs["a.old"] = res.fs["a.old"])
    /\ (RestoreRan /\ res.fs["a.old"] = NoFile) => (~res.ok /\ fs = res.fs)

\* C30: backupDatabase replaces an existing backup with a copy of the file,
\* restoreDatabase overwrites the file with the backup when there is one and
\* else returns false and leaves the file untouched, and both compute the
\* same backup file name for the same path
C30_BackupRestore ==
    /\ BackupRestoreFiles
    /\ (BackupRan \/ RestoreRan) =>
           BackupFileName(filePath) = RestoreFileName(filePath)

\* ------------------------------------------------------------------ C31
RECURSIVE GroupBelow(_, _, _)
\* the group h is g or lies below it
GroupBelow(st, h, g) ==
    h = g \/ (st.gp[h] \in Groups /\ GroupBelow(st, st.gp[h], g))

\* C31: with the recycle bin enabled, after recycleGroup(g) the group g and
\* every group and entry below it report isRecycled() true, and every other
\* group and entry reports what it reported before, false when it lies outside
\* the bin
C31_IsRecycled ==
    (TreeDone("recycleGroup") /\ Pre.enabled) =>
        /\ \A h \in Groups :
              LiveGroup(Objects, h) =>
                  IF GroupBelow(Objects, h, tres.g)
                  THEN GroupIsRecycled(Objects, h)
                  ELSE /\ GroupIsRecycled(Objects, h) = GroupIsRecycled(Pre, h)
                       /\ ~UnderBin(Objects, h) => ~GroupIsRecycled(Objects, h)
        /\ \A e \in Entries :
              LiveEntry(Objects, e) =>
                  IF entryGroup[e] \in Groups /\ GroupBelow(Objects, entryGroup[e], tres.g)
                  THEN EntryIsRecycled(Objects, e)
                  ELSE EntryIsRecycled(Objects, e) = EntryIsRecycled(Pre, e)

\* a second group is recycled after a first one that has a subgroup and an
\* entry, and a bystander entry is left in the root
C31_Witness ==
    /\ TreeDone("recycleGroup")
    /\ Pre.enabled /\ Pre.bin # NoGroup
    /\ tres.g = "g1" /\ ~GroupIsRecycled(Pre, "g1")
    /\ GroupIsRecycled(Pre, "gx") /\ GroupIsRecycled(Objects, "gx")
    /\ entryGroup["e1"] = "g1" /\ EntryIsRecycled(Objects, "e1")
    /\ entryGroup["e2"] = Root /\ ~EntryIsRecycled(Objects, "e2")


\* ---------------------------------------------------------------- C34
\* saveAs got as far as performSave and performSave returned false
SaveFailedWriting == SaveFailed /\ res.err \notin {"readonly", "unmerged", "nopath"}

\* C34: when saveAs fails while writing, that is when performSave returns
\* false, isModified is true afterwards and the file watcher is not running
C34_FailedWriteModifiedUnwatched ==
    SaveFailedWriting => (modified /\ watch = NoWatch)

\* a Database that was clean and watched fails to write to its own file
C34_Witness ==
    /\ SaveFailedWriting
    /\ ~res.mod
    /\ res.watch # NoWatch
    /\ modified
    /\ watch = NoWatch

\* ---------------------------------------------------------------- C35
\* a save with backup = true has ended and the file that was at the target
\* is no longer there with its bytes
TargetReplaced ==
    /\ SaveDone
    /\ sv.backup
    /\ res.fs[Target] # NoFile
    /\ fs[Target] # res.fs[Target]

\* C35: when backup is requested and the target exists, no save ends with
\* the target overwritten or deleted while no backup file holds the bytes the
\* target had before the save
C35_BackupBeforeReplace ==
    TargetReplaced => fs[BackupPath(Target)] = res.fs[Target]

\* ---------------------------------------------------------------- C36
\* C36: a failed saveAs leaves isReadOnly() and filePath() as they were before
\* the call, so a Database opened read-only is still read-only after a failed
\* saveAs to a different path
C36_FailedSaveAsFrame ==
    SaveFailed => (isReadOnly = res.ro /\ filePath = res.fp)

\* ---------------------------------------------------------------- C37
\* C37: every return path of Database::open, successful or failed, leaves
\* m_emitModified true, so that a later markAsModified starts the timer
C37_OpenKeepsNotifications == OpenDone => emitModified

\* ============================================================== YubiKey
\* Time is counted in ticks. A thread that holds the mutex is inside a device
\* call (yk_get_status, yk_init, yk_open_first_key, yk_challenge_response),
\* which takes up to MaxHold ticks; yk.waited[t] counts the ticks thread t has
\* been blocked in its current wait on the mutex.

\* the 1000 ms of m_mutex.tryLock(1000), in ticks
LockTimeout == 2

notYk == <<fs, tmp, pc, dbVars, keyVars, sv, res, crVars, treeVars, entryVars,
           attributes, rres, rootGroup, owned, wd>>

\* thread t is blocked on the mutex another thread holds
Blocked(t) ==
    /\ yk.pc[t] \in {"initLock", "tryLock"}
    /\ yk.owner # NoThread

\* YubiKey::challenge is called on thread t: it begins with init(), whose first
\* statement is m_mutex.lock()
ChallengeCall(t) ==
    /\ yk.pc[t] = "idle"
    /\ yk' = [yk EXCEPT !.pc[t] = "initLock", !.waited[t] = 0, !.out[t] = "none"]
    /\ UNCHANGED notYk

\* init: m_mutex.lock() returns once the mutex is free, however long that takes
InitLock(t) ==
    /\ yk.pc[t] = "initLock"
    /\ yk.owner = NoThread
    /\ yk' = [yk EXCEPT !.pc[t] = "initDev", !.owner = t, !.hold = 0]
    /\ UNCHANGED notYk

\* init: the device calls made under the mutex and the unlock before every
\* return; challenge returns ERROR when init returns false and goes on to
\* m_mutex.tryLock(1000) otherwise
InitReturn(t, ok) ==
    /\ yk.pc[t] = "initDev"
    /\ yk' = [yk EXCEPT !.pc[t] = IF ok THEN "tryLock" ELSE "done",
                        !.out[t] = IF ok THEN "none" ELSE "ERROR",
                        !.owner = NoThread, !.open = ok, !.waited[t] = 0]
    /\ UNCHANGED notYk

\* challenge: tryLock gets the mutex within the timeout
TryLock(t) ==
    /\ yk.pc[t] = "tryLock"
    /\ yk.owner = NoThread
    /\ yk' = [yk EXCEPT !.pc[t] = "devCall", !.owner = t, !.hold = 0]
    /\ UNCHANGED notYk

\* challenge: tryLock gives up after the timeout and challenge returns
\* ALREADY_RUNNING
TryLockTimeout(t) ==
    /\ yk.pc[t] = "tryLock"
    /\ yk.waited[t] >= LockTimeout
    /\ yk' = [yk EXCEPT !.pc[t] = "done", !.out[t] = "ALREADY_RUNNING"]
    /\ UNCHANGED notYk

\* challenge: yk_challenge_response returns, the mutex is unlocked and the
\* result is computed from the return value and yk_errno
ChallengeReturn(t, r) ==
    /\ yk.pc[t] = "devCall"
    /\ yk' = [yk EXCEPT !.pc[t] = "done", !.out[t] = r, !.owner = NoThread]
    /\ UNCHANGED notYk

\* the caller takes the result
YkReturn(t) ==
    /\ yk.pc[t] = "done"
    /\ yk' = [yk EXCEPT !.pc[t] = "idle", !.out[t] = "none", !.waited[t] = 0]
    /\ UNCHANGED notYk

\* a tick passes while a device call is running: a tryLock that has waited for
\* the timeout returns before the next tick
Tick ==
    /\ yk.owner # NoThread
    /\ yk.hold < MaxHold
    /\ \A t \in Threads :
           /\ yk.waited[t] < MaxWait
           /\ yk.pc[t] = "tryLock" => yk.waited[t] < LockTimeout
    /\ yk' = [yk EXCEPT !.hold = @ + 1,
                        !.waited = [t \in Threads |->
                                       IF Blocked(t) THEN @[t] + 1 ELSE @[t]]]
    /\ UNCHANGED notYk

InitYubi ==
    /\ Init
    /\ fs["a"] = NoFile

NextYubi ==
    \/ \E t \in Threads : ChallengeCall(t)
    \/ \E t \in Threads : InitLock(t)
    \/ \E t \in Threads, ok \in BOOLEAN : InitReturn(t, ok)
    \/ \E t \in Threads : TryLock(t)
    \/ \E t \in Threads : TryLockTimeout(t)
    \/ \E t \in Threads, r \in {"SUCCESS", "WOULDBLOCK", "ERROR"} :
           ChallengeReturn(t, r)
    \/ \E t \in Threads : YkReturn(t)
    \/ Tick

SpecYubi == InitYubi /\ [][NextYubi]_vars

\* ---------------------------------------------------------------- C33
\* C33: a challenge call made while another thread holds the device mutex
\* inside a device call waits only for the bounded lock timeout: no wait of
\* challenge on the mutex, the one inside init included, lasts longer than the
\* timeout of tryLock
C33_BoundedWait == \A t \in Threads : yk.waited[t] <= LockTimeout

\* ======================================================= DatabaseWidget
\* The handlers of the widget run on the GUI thread. A handler that waits for
\* an answer (a message box, the file dialog) or for Database::save is a
\* sequence of steps; wd.at is where it waits and wd.stack the callers of the
\* running save(): "saveAs" for the loop of saveAs(), "lockAuto" and
\* "lockSave" for the two calls in lock(). The modal dialogs are answered
\* before the 150 ms timer of the Database fires.

notGui == <<fs, tmp, pc, sv, res, crVars, treeVars, entryVars, attributes, rres,
            rootGroup, owned, yk>>

\* the smaller of two numbers
Min(a, b) == IF a < b THEN a ELSE b

\* a return value handed back to the callers on the stack: saveAs() asks for
\* another file name after a failed save; lock() goes on to its question after
\* a failed automatic save, returns false after a failed requested save and
\* goes on to replace the Database after a successful one ("locking")
RECURSIVE SaveReturns(_, _)
SaveReturns(w, v) ==
    IF w.stack = <<>>
    THEN [w EXCEPT !.at = "done", !.ret = v]
    ELSE LET top == Head(w.stack)
             rest == [w EXCEPT !.stack = Tail(@)]
         IN  IF top = "saveAs"
             THEN IF v THEN SaveReturns(rest, TRUE) ELSE [w EXCEPT !.at = "dialog"]
             ELSE IF top = "lockAuto"
             THEN IF v THEN [rest EXCEPT !.at = "locking", !.saved = TRUE]
                  ELSE [rest EXCEPT !.at = "lockAsk", !.autoFailed = TRUE]
             ELSE IF v THEN [rest EXCEPT !.at = "locking", !.saved = TRUE]
                  ELSE SaveReturns([rest EXCEPT !.saveFailed = TRUE], FALSE)

\* DatabaseWidget::save up to the call of m_db->save: ro and path are
\* m_db->isReadOnly() and m_db->filePath()
EnterSave(w, ro, path) ==
    IF w.locked
    THEN SaveReturns(w, TRUE)
    ELSE IF ro \/ path = NoPath
    THEN [w EXCEPT !.at = "dialog", !.stack = <<"saveAs">> \o @]
    ELSE [w EXCEPT !.at = "call", !.blockAutoSave = TRUE,
                   !.saveAttempts = @ + 1, !.useAtomic = w.atomic,
                   !.calls = @ + 1,
                   !.retries = IF w.disabled THEN @ + 1 ELSE @,
                   !.retryAtomic = IF w.disabled THEN w.atomic ELSE @]

\* a fresh call of save(): what it records starts anew
FreshSave(w) == [w EXCEPT !.disabled = FALSE, !.retries = 0, !.prompts = 0,
                          !.retryAtomic = FALSE, !.calls = 0]

\* a save() that asks after every failed atomic save
AskDisableAtOnce(w) == w.useAtomic

\* DatabaseWidget::save: the question about safe saves is asked
AskDisable(w) == w.saveAttempts > 2 /\ w.useAtomic

\* QSharedPointer<Database>::create(m_db->filePath()) and replaceDatabase
ReplaceDatabase ==
    /\ filePath' = filePath
    /\ isReadOnly' = FALSE
    /\ modified' = FALSE
    /\ initialized' = FALSE
    /\ emitModified' = TRUE
    /\ timer' = FALSE
    /\ watch' = NoWatch
    /\ tree' = DefaultTree
    /\ key' = NullKey
    /\ hasKey' = FALSE
    /\ tk' = EmptyRaw
    /\ kdf' = kdf

\* the end of a step: lock() replaces the Database when it got that far
WidgetStep(w) ==
    IF w.at = "locking"
    THEN /\ wd' = [w EXCEPT !.at = "done", !.ret = TRUE, !.locked = TRUE,
                            !.lastSave = "none"]
         /\ ReplaceDatabase
    ELSE /\ wd' = w
         /\ UNCHANGED <<dbVars, keyVars>>

\* the counter of failed saves is kept below MaxAttempts
CanSave == wd.saveAttempts < MaxAttempts

\* a handler starts: what the last one recorded is dropped
Handler(op) == [wd EXCEPT !.op = op, !.ret = TRUE, !.calls = 0, !.prompts = 0,
                         !.disabled = FALSE, !.retries = 0,
                         !.retryAtomic = FALSE, !.askFails = 0,
                         !.askAfails = 0, !.preMod = modified,
                         !.preLocked = wd.locked, !.ans = "none",
                         !.autoFailed = FALSE, !.saveFailed = FALSE,
                         !.saved = FALSE, !.after = "none"]

WidgetIdle == wd.at = "idle" /\ pc = "idle"

\* DatabaseWidget::save(), called by the user's Save command
WSave ==
    /\ WidgetIdle
    /\ CanSave
    /\ WidgetStep(EnterSave(Handler("save"), isReadOnly, filePath))
    /\ UNCHANGED notGui

\* DatabaseWidget::saveAs(), called by the user's Save As command
WSaveAs ==
    /\ WidgetIdle
    /\ ~wd.locked
    /\ wd' = [Handler("saveAs") EXCEPT !.at = "dialog", !.stack = <<"saveAs">>]
    /\ UNCHANGED <<dbVars, keyVars, notGui>>

\* save(): m_db->save(&errorMessage, useAtomicSaves, BackupBeforeSave) begins.
\* A file watcher that was stopped reports no change: saveAs() sets the file
\* path, which stops the watcher, and saves to that path
DbSaveCall ==
    /\ wd.at = "call"
    /\ \E backup \in {FALSE} :
           SaveAsBegin(filePath, wd.useAtomic, backup,
                       IF watch.path # NoPath THEN SameChecksum ELSE TRUE)

\* save() after m_db->save has returned
SaveResult ==
    LET f == [wd EXCEPT !.fails = IF res.ok THEN 0 ELSE Min(@ + 1, 3),
                        !.afails = IF res.ok \/ ~wd.useAtomic THEN 0
                                   ELSE Min(@ + 1, 3),
                        !.lastSave = IF res.ok THEN "ok" ELSE "fail"]
        w == IF res.ok
             THEN SaveReturns([f EXCEPT !.saveAttempts = 0,
                                        !.blockAutoSave = FALSE], TRUE)
             ELSE IF AskDisable(f)
             THEN [f EXCEPT !.at = "ask", !.prompts = @ + 1,
                            !.askFails = f.fails, !.askAfails = f.afails]
             ELSE SaveReturns(f, FALSE)
    IN  /\ wd.at = "call"
        /\ pc = "done"
        /\ res.op = "save"
        /\ pc' = "idle"
        /\ res' = NoRes
        /\ sv' = NoSave
        /\ tmp' = NoFile
        /\ WidgetStep(w)
        /\ UNCHANGED <<fs, crVars, treeVars, entryVars, attributes, rres,
                       rootGroup, owned, yk>>

\* save(): the answer to "Disable safe saves and try again?"
AskAnswer(ans) ==
    /\ wd.at = "ask"
    /\ pc = "idle"
    /\ ans = "Disable" => CanSave
    /\ WidgetStep(IF ans = "Disable"
                  THEN EnterSave([wd EXCEPT !.atomic = FALSE, !.disabled = TRUE],
                                 isReadOnly, filePath)
                  ELSE SaveReturns(wd, FALSE))
    /\ UNCHANGED notGui

\* saveAs(): the file dialog returns a name, or nothing when it was cancelled
Dialog(p) ==
    /\ wd.at = "dialog"
    /\ pc = "idle"
    /\ IF p = NoPath
       THEN /\ WidgetStep(SaveReturns([wd EXCEPT !.stack = Tail(@)], FALSE))
            /\ UNCHANGED notGui
       ELSE /\ isReadOnly' = FALSE
            /\ filePath' = p
            /\ watch' = IF p # filePath THEN NoWatch ELSE watch
            /\ wd' = EnterSave(FreshSave([wd EXCEPT !.saveAttempts = 0]), FALSE, p)
            /\ UNCHANGED <<modified, initialized, emitModified, timer, tree,
                           keyVars, notGui>>

\* DatabaseWidget::lock() up to its first save or question
LockCall(editing, discard, auto) ==
    LET w == Handler("lock")
    IN  /\ WidgetIdle
        /\ CanSave
        /\ WidgetStep(IF wd.locked THEN SaveReturns(w, TRUE)
                      ELSE IF editing /\ ~discard
                      THEN SaveReturns([w EXCEPT !.ans = "Cancel"], FALSE)
                      ELSE IF ~modified THEN [w EXCEPT !.at = "locking"]
                      ELSE IF auto
                      THEN EnterSave([w EXCEPT !.stack = <<"lockAuto">>],
                                     isReadOnly, filePath)
                      ELSE [w EXCEPT !.at = "lockAsk"])
        /\ UNCHANGED notGui

\* a lock() that locks on Cancel as it does on Discard
LockAnswerAnyway(ans) ==
    /\ wd.at = "lockAsk"
    /\ pc = "idle"
    /\ ans = "Save" => CanSave
    /\ WidgetStep(IF ans = "Save"
                  THEN EnterSave(FreshSave([wd EXCEPT !.ans = ans,
                                                      !.stack = <<"lockSave">>]),
                                 isReadOnly, filePath)
                  ELSE [wd EXCEPT !.ans = ans, !.at = "locking"])
    /\ UNCHANGED notGui

\* lock(): the answer to "Save changes?"
LockAnswer(ans) ==
    /\ wd.at = "lockAsk"
    /\ pc = "idle"
    /\ ans = "Save" => CanSave
    /\ WidgetStep(IF ans = "Save"
                  THEN EnterSave(FreshSave([wd EXCEPT !.ans = ans,
                                                      !.stack = <<"lockSave">>]),
                                 isReadOnly, filePath)
                  ELSE IF ans = "Cancel"
                  THEN SaveReturns([wd EXCEPT !.ans = ans], FALSE)
                  ELSE [wd EXCEPT !.ans = ans, !.at = "locking"])
    /\ UNCHANGED notGui

\* m_modifiedTimer fires, databaseModified is emitted and onDatabaseModified
\* runs; auto is AutoSaveAfterEveryChange
TimerFires(auto) ==
    LET w == [Handler("modified") EXCEPT !.after = wd.lastSave,
                                        !.lastSave = "none"]
    IN  /\ WidgetIdle
        /\ timer
        /\ ~wd.locked
        /\ CanSave
        /\ timer' = FALSE
        /\ wd' = IF ~wd.blockAutoSave /\ auto /\ ~isReadOnly
                 THEN EnterSave(w, isReadOnly, filePath)
                 ELSE [w EXCEPT !.blockAutoSave = FALSE, !.at = "done"]
        /\ UNCHANGED <<filePath, isReadOnly, modified, initialized, emitModified,
                       watch, tree, keyVars, notGui>>

\* the handler has returned to the event loop
WReturn ==
    /\ wd.at = "done"
    /\ wd' = [Handler("none") EXCEPT !.at = "idle", !.preMod = FALSE,
                                    !.preLocked = FALSE]
    /\ UNCHANGED <<dbVars, keyVars, notGui>>

\* ApplicationSettingsWidget::saveSettings: the user sets UseAtomicSaves
SetAtomic(b) ==
    /\ WidgetIdle
    /\ b # wd.atomic
    /\ wd' = [wd EXCEPT !.atomic = b]
    /\ UNCHANGED <<dbVars, keyVars, notGui>>

\* the user changes the Database shown
WEdit == WidgetIdle /\ ~wd.locked /\ \E t \in {DefaultTree, 1} : Edit(t)

\* another program replaces the database file
WExternalWrite == WidgetIdle /\ \E c \in {Enc(DefaultTree), Enc(1)} : ExternalWrite("a", c)

\* the open widget of a locked DatabaseWidget opens the file
WOpen ==
    /\ WidgetIdle
    /\ wd.locked
    /\ filePath # NoPath
    /\ \E k \in UserKeys, roReq \in BOOLEAN, dec \in {"ok", "fail"} :
           Open(filePath, k, roReq, TRUE, TRUE, dec, kdf)

\* DatabaseWidget::loadDatabase(accepted): the opened Database replaces the
\* locked one; after a failed open the open widget drops its Database
LoadDatabase ==
    /\ wd.at = "idle"
    /\ pc = "done"
    /\ res.op = "open"
    /\ pc' = "idle"
    /\ res' = NoRes
    /\ IF res.ok
       THEN /\ wd' = [wd EXCEPT !.locked = FALSE, !.saveAttempts = 0]
            /\ UNCHANGED <<dbVars, keyVars>>
       ELSE /\ wd' = wd
            /\ ReplaceDatabase
    /\ UNCHANGED <<fs, tmp, sv, crVars, treeVars, entryVars, attributes, rres,
                   rootGroup, owned, yk>>

InitWidget ==
    /\ Init
    /\ fs["a"] = Enc(DefaultTree)
    /\ kdf.seed = 1

NextWidget ==
    \/ WSave
    \/ WSaveAs
    \/ DbSaveCall
    \/ WriteAct
    \/ CommitAct
    \/ RemoveAct
    \/ RenameAct
    \/ SaveResult
    \/ \E ans \in {"Disable", "Cancel"} : AskAnswer(ans)
    \/ \E p \in {"a", NoPath} : Dialog(p)
    \/ \E editing \in BOOLEAN, discard \in BOOLEAN, auto \in BOOLEAN :
           LockCall(editing, discard, auto)
    \/ \E ans \in {"Save", "Discard", "Cancel"} : LockAnswer(ans)
    \/ \E auto \in BOOLEAN : TimerFires(auto)
    \/ WReturn
    \/ \E b \in BOOLEAN : SetAtomic(b)
    \/ WEdit
    \/ WExternalWrite
    \/ WOpen
    \/ LoadDatabase

SpecWidget == InitWidget /\ [][NextWidget]_vars

\* ---------------------------------------------------------------- C32
\* a successful save leaves the attempt counter at zero
SuccessResets == (wd.lastSave = "ok" /\ wd.at # "call") => wd.saveAttempts = 0

\* one call of save() calls m_db->save at most twice and asks at most once;
\* after the answer Disable it retries exactly once, not atomically, and does
\* not ask again
SaveTerminates ==
    /\ wd.calls <= 2
    /\ wd.prompts <= 1
    /\ wd.disabled =>
           /\ wd.at # "ask"
           /\ wd.retries <= 1
           /\ wd.retries = 1 => ~wd.retryAtomic
           /\ wd.at \in {"done", "dialog", "lockAsk"} => wd.retries = 1

\* C32 as stated: save asks whether to disable atomic saves only after at
\* least three consecutive failed attempts made with atomic saves enabled; a
\* successful save resets the counter; a call of save terminates, retrying
\* exactly once after Disable without asking again
C32_AsksAfterThreeAtomic ==
    /\ wd.at = "ask" => wd.askAfails >= 3
    /\ SuccessResets
    /\ SaveTerminates

\* C32 amended: save asks only after at least three consecutive failed
\* attempts, the last of them made with atomic saves enabled; a successful
\* save resets the counter; a call of save terminates, retrying exactly once
\* after Disable without asking again
C32_AsksAfterThreeFailed ==
    /\ wd.at = "ask" => (wd.askFails >= 3 /\ wd.askAfails >= 1)
    /\ SuccessResets
    /\ SaveTerminates

\* two saves failed with atomic saves off, the third with them on: save asked,
\* the user answered Disable and the one retry has returned
C32_Witness ==
    /\ wd.op = "save"
    /\ wd.at = "done"
    /\ wd.disabled
    /\ wd.retries = 1
    /\ wd.askFails = 3
    /\ wd.askAfails = 1

\* ---------------------------------------------------------------- C38
\* lock() has returned and the widget was not locked when it was called
LockDone == wd.op = "lock" /\ wd.at = "done" /\ ~wd.preLocked

\* a modified Database was replaced only after a successful save or the
\* answer Discard
LockedAfterSaveOrDiscard ==
    (LockDone /\ wd.preMod /\ wd.locked) => (wd.saved \/ wd.ans = "Discard")

\* lock() returned false and the Database is still shown, with its changes
StaysLoaded == ~wd.ret /\ ~wd.locked /\ (wd.preMod => modified)

\* C38 as stated: lock replaces a modified Database only after a successful
\* save or an explicit Discard; if the save fails or the user cancels, lock
\* returns false and the Database with its unsaved changes stays loaded and
\* unlocked
C38_LockKeepsUnsaved ==
    /\ LockedAfterSaveOrDiscard
    /\ (LockDone /\ (wd.autoFailed \/ wd.saveFailed \/ wd.ans = "Cancel"))
           => StaysLoaded

\* C38 amended: lock replaces a modified Database only after a successful save
\* or an explicit Discard; if the save asked for with the answer Save fails or
\* the user cancels, lock returns false and the Database with its unsaved
\* changes stays loaded and unlocked
C38_LockKeepsUnsavedOnSave ==
    /\ LockedAfterSaveOrDiscard
    /\ (LockDone /\ (wd.saveFailed \/ wd.ans = "Cancel")) => StaysLoaded

\* the automatic save failed, the user answered Save and that save failed too
C38_Witness ==
    /\ LockDone
    /\ wd.preMod
    /\ wd.autoFailed
    /\ wd.ans = "Save"
    /\ wd.saveFailed
    /\ StaysLoaded

\* ---------------------------------------------------------------- C40
\* the last call of m_db->save on the Database shown failed and
\* onDatabaseModified has not run since
AfterFailedSave == wd.lastSave = "fail" /\ ~wd.locked

\* C40: a failed DatabaseWidget::save starts no save loop: the notification
\* that follows it is consumed by onDatabaseModified without a save, and the
\* failed save leaves that notification pending, so that the block is cleared
\* before the next modification
C40_BlockClearedAfterFailedSave ==
    /\ (wd.op = "modified" /\ wd.after = "fail") => wd.calls = 0
    /\ (WidgetIdle /\ AfterFailedSave /\ wd.blockAutoSave) => timer

\* ============================================ DatabaseWidget::deleteEntries
\* the selections handed to deleteEntries: one or two entries, in either order
Selections == {<<"e1">>, <<"e2">>, <<"e1", "e2">>, <<"e2", "e1">>}

\* recycleBin->findEntryByUuid(uuid): the entry is in the bin or below it
BinFindsEntry(st, e) ==
    st.bin # NoGroup /\ st.eg[e] \in Groups /\ UnderBin(st, st.eg[e])

\* deleteEntries: whether the selection is destroyed, decided on its first
\* entry
Permanent(st, sel) == BinFindsEntry(st, sel[1]) \/ ~st.enabled

\* the selected entries the user did not answer Skip for
Kept(sel, skip) == SelectSeq(sel, LAMBDA x : x \notin skip)

RECURSIVE DeleteSelectedSt(_, _, _, _)
\* deleteEntries: delete or recycle the entries left in the list, from the
\* i-th on
DeleteSelectedSt(st, sel, i, permanent) ==
    IF i > Len(sel) THEN st
    ELSE DeleteSelectedSt(IF permanent THEN DeleteEntrySt(st, sel[i])
                          ELSE RecycleEntrySt(st, sel[i]),
                          sel, i + 1, permanent)

\* DatabaseWidget::deleteEntries(selectedEntries): confirm is the answer to the
\* confirmation, skip the entries with references the user answered Skip for;
\* tres.e and tres.u record the entries that were left in the list
DeleteEntries(sel, confirm, skip) ==
    LET kept == IF confirm THEN Kept(sel, skip) ELSE <<>>
        st == DeleteSelectedSt(Objects, kept, 1, Permanent(Objects, sel))
    IN  /\ \A i \in 1..Len(sel) :
               /\ LiveEntry(Objects, sel[i])
               /\ entryGroup[sel[i]] \in Groups
               /\ InDb(Objects, entryGroup[sel[i]])
        /\ CanMakeBin(Objects)
        /\ TreeStep("deleteEntries",
                    IF Len(kept) >= 1 THEN kept[1] ELSE NoGroup, NoGroup,
                    IF Len(kept) >= 2 THEN kept[2] ELSE NoGroup, st)

DeleteEntriesAct ==
    \E sel \in Selections, confirm \in BOOLEAN, skip \in SUBSET Entries :
        DeleteEntries(sel, confirm, skip)

NextDelete ==
    \/ DeleteEntriesAct
    \/ RecycleEntryAct
    \/ RecycleGroupAct
    \/ SetGroupAct
    \/ SetRecycleBinEnabledAct
    \/ Return

SpecDelete == InitRecycle /\ [][NextDelete]_vars

\* ---------------------------------------------------------------- C39
\* C39: deleteEntries destroys a selected entry only if that entry is already
\* inside the recycle bin or the bin is disabled; every other selected entry
\* that is not skipped is moved to the recycle bin, whatever else is selected
C39_DestroysOnlyRecycled ==
    TreeDone("deleteEntries") =>
        /\ \A e \in Entries :
              (LiveEntry(Pre, e) /\ ~LiveEntry(Objects, e)) =>
                  (BinFindsEntry(Pre, e) \/ ~Pre.enabled)
        /\ \A e \in {tres.e, tres.u} \cap Entries :
              (Pre.enabled /\ ~BinFindsEntry(Pre, e)) =>
                  (LiveEntry(Objects, e) /\ bin # NoGroup /\ entryGroup[e] = bin)
====
